---------------------------- MODULE Spec2Model ----------------------------
(***************************************************************************)
(* Chatify real-time relay: the socket.io server of                        *)
(* backend/socket/socketHandler.js together with the REST chat routes it   *)
(* shares the database with, and the typing state the client's             *)
(* SocketProvider keeps from the frames it receives.                       *)
(*                                                                         *)
(* Every handler of the source is an async function.  An action of this    *)
(* module is one run-to-completion slice of a handler: from the database   *)
(* reply it was awaiting (the effect of the awaited operation included) to *)
(* the next await it issues, or to its end.  Slices of different handlers  *)
(* interleave freely, as they do on the node event loop.                   *)
(***************************************************************************)
EXTENDS Integers, Sequences, FiniteSets, TLC

\* ------------------------------------------------------------------ bounds
MaxConns == 2      \* sockets that are ever opened
MaxSends == 2      \* sendMessage frames that are ever handled
MaxReads == 2      \* markAsRead frames that are ever handled
MaxCreates == 2    \* POST /api/chats requests that are ever handled
JoinCreates == 1   \* of these, while sockets connect and close
MaxFaults == 1     \* database operations that are ever rejected
MaxClock == 2      \* last value of the wall clock (new Date())
MaxTypings == 3    \* typing frames that are ever handled
MaxInputs == 5     \* input events of the ChatWindow user
ListSends == 1     \* messages sent while the chat list is on screen
MaxAttempts == 4   \* calls of the AuthProvider's functions and page loads

Conns == 1..MaxConns

\* ------------------------------------------------------------- the database
\* User documents that exist; "ghost" is a user id a signed token may still
\* carry after the user document is gone.
Users == {"alice", "bob", "carol"}
None == "none"

\* Chat ids and message ids are ObjectIds the driver allocates when the
\* document is constructed; the model numbers them in allocation order.
InitialChats ==
  (1 :> [participants |-> {"alice", "bob"}, isGroupChat |-> FALSE, admin |-> None,
         lastMessage |-> 0, lastActivity |-> 0])
  @@
  (2 :> [participants |-> {"bob", "carol"}, isGroupChat |-> FALSE, admin |-> None,
         lastMessage |-> 0, lastActivity |-> 0])

VARIABLES
  clock,        \* the wall clock read by new Date()
  users,        \* User collection: [isOnline, lastSeen] per user id
  chats,        \* Chat collection: chat id -> document
  messages,     \* Message collection, in the order the saves completed
  nextMsgId,    \* message ids allocated so far (new Message)
  activeUsers,  \* the module-level Map userId -> socketId (0: no entry)
  sock,         \* per socket: transport state, token, userId, listeners
  hpc,          \* position of the async 'connection' handler of a socket
  dpc,          \* position of the async 'disconnect' handler of a socket
  rooms,        \* socket.io adapter: the rooms each socket id is in
  inbox,        \* frames delivered to the client of each socket, in order
  emitted,      \* userOnline / userOffline broadcasts issued per user id
  edges,        \* 0->1 and 1->0 changes of a user's live-connection count,
                \* and the time of the last 1->0 change
  sends,        \* sendMessage handler invocations (one record each)
  reads,        \* markAsRead handler invocations
  creates,      \* POST /api/chats requests
  typings,      \* typing frames the server has handled, in order
  typingUsers,  \* per client: the typingUsers state of its SocketProvider
  timers,       \* per client: the pending setTimeout callbacks, oldest first
  seen,         \* per client: frames of its inbox its listeners have handled
  asked,        \* per client: what became of its getOnlineUsers request
  onlineUsers,  \* per client: the onlineUsers state of its SocketProvider
  newMessage,   \* ChatWindow: the text of the input field
  isTyping,     \* ChatWindow: the isTyping state
  typingTimeout,\* ChatWindow: the setTimeout callback typingTimeoutRef holds
  emits,        \* ChatWindow: the frames it has emitted on its socket
  inputs,       \* ChatWindow: input events of the user handled so far
  windowMessages, \* ChatWindow: the messages state, as message ids in order
  load,         \* ChatWindow: its loadMessages call and the GET it awaits
  chatList,     \* ChatApp: the chats state, in order
  chatsLoad,    \* ChatApp: its loadChats call and the GET it awaits
  createdShown, \* ChatApp: the create requests whose response it has handled
  authState,    \* AuthProvider: the state of its reducer
  localStorage, \* the token item of the browser's localStorage
  attempts      \* AuthProvider: mount effects and calls of its async functions

vars == <<clock, users, chats, messages, nextMsgId, activeUsers, sock, hpc,
          dpc, rooms, inbox, emitted, edges, sends, reads, creates,
          typings, typingUsers, timers, seen, asked, onlineUsers,
          newMessage, isTyping, typingTimeout, emits, inputs,
          windowMessages, load, chatList, chatsLoad, createdShown,
          authState, localStorage, attempts>>

dbVars == <<users, chats, messages, nextMsgId>>
connVars == <<activeUsers, sock, hpc, dpc, emitted, edges>>
taskVars == <<sends, reads, creates>>
typingVars == <<typings, typingUsers, timers, seen>>
windowVars == <<newMessage, isTyping, typingTimeout, emits, inputs>>
historyVars == <<windowMessages, load>>
listVars == <<chatList, chatsLoad, createdShown>>
authVars == <<authState, localStorage, attempts>>
uiVars == <<windowVars, historyVars, listVars, authVars>>
clientVars == <<typingVars, asked, onlineUsers, uiVars>>

\* ------------------------------------------------------------------ tokens
\* socket.handshake.auth.token: absent, present but failing jwt.verify, or
\* signed for a user id.
NoToken == [present |-> FALSE, signed |-> FALSE, userId |-> None]
Tokens ==
  {NoToken, [present |-> TRUE, signed |-> FALSE, userId |-> "alice"]}
  \cup {[present |-> TRUE, signed |-> TRUE, userId |-> u] : u \in {"alice", "bob", "ghost"}}

\* A jwtVerify that decodes the token without checking its signature.
jwtDecodeUnverified(tok) == [ok |-> TRUE, userId |-> tok.userId]

\* jwt.verify(token, JWT_SECRET): the decoded user id, or a throw.
jwtVerify(tok) ==
  IF tok.signed THEN [ok |-> TRUE, userId |-> tok.userId]
  ELSE [ok |-> FALSE, userId |-> None]

\* User.findById(id): the document, or null.
UserFindById(id) == IF id \in Users THEN id ELSE None

\* The token resolves to a user: present, verified, and the user exists.
TokenResolves(tok) ==
  tok.present /\ jwtVerify(tok).ok /\ UserFindById(jwtVerify(tok).userId) # None

\* --------------------------------------------------------------- helpers
Connected(c) == sock[c].state = "connected"

\* The sockets the namespace holds: targets of every broadcast.
ConnectedSockets == {c \in Conns : Connected(c)}

LiveCount(u) == Cardinality({c \in Conns : Connected(c) /\ sock[c].userId = u})

\* A ChatFind that drops the participants filter.
ChatFindEveryChat(u) == DOMAIN chats

\* Chat.find({ participants: userId }): ids of the chats the user is in.
ChatFind(u) == {ch \in DOMAIN chats : u \in chats[ch].participants}

\* Deliver frame f to every socket of the set to.
Deliver(to, f) == [c \in Conns |-> IF c \in to THEN Append(inbox[c], f) ELSE inbox[c]]

\* socket.broadcast.emit: every connected socket of the namespace but c.
BroadcastTargets(c) == ConnectedSockets \ {c}

\* A RoomTargets that ignores the room: io.emit.
RoomTargetsNamespace(ch) == ConnectedSockets

\* io.to(room): every connected socket that is in the room.
RoomTargets(ch) == {c \in ConnectedSockets : ch \in rooms[c]}

\* socket.to(room): the room without the emitting socket.
RoomTargetsExcept(c, ch) == RoomTargets(ch) \ {c}

\* ------------------------------------------------- the client's typing state
\* The keys of the client's typingUsers object: a chat id, or the key a
\* frame without a chatId field is filed under (data.chatId is undefined).
Undefined == 0
TypingKeys == {Undefined, 1, 2, 3}

\* null, the cleared entry of a user.
NullEntry == [ev |-> "null"]

\* useState({}): no entry yet reads like a cleared one (typingUsers[chatId]
\* || {} and filter(Boolean)).
NoTypingUsers == [k \in TypingKeys |-> [u \in Users |-> NullEntry]]

\* ----------------------------------------------- the client's presence state
\* The entries of the client's onlineUsers array, kept as a set: a userOnline
\* payload names its user under userId, an entry of the onlineUsers snapshot
\* under id (the other field is undefined).
EventEntry(u) == [key |-> "userId", user |-> u]
SnapshotEntry(u) == [key |-> "id", user |-> u]

\* u.userId === userId, for an entry u of the array.
HasUserId(e, userId) == e.key = "userId" /\ e.user = userId

\* The updater of the userOnline listener: the payload is appended unless an
\* entry has its userId.
addOnlineUser(prev, data) ==
  IF \E e \in prev : HasUserId(e, data.userId) THEN prev
  ELSE prev \cup {EventEntry(data.userId)}

\* The updater of the userOffline listener: the entries whose userId is not
\* the payload's stay.
removeOnlineUser(prev, data) == {e \in prev : ~HasUserId(e, data.userId)}

\* The onlineUsers listener: the snapshot replaces the array.
setOnlineUsers(list) == {SnapshotEntry(u) : u \in list}

\* isUserOnline(userId): some entry has it as userId or as id.
isUserOnline(list, userId) ==
  \E e \in list : HasUserId(e, userId) \/ (e.key = "id" /\ e.user = userId)

PresenceEvents == {"userOnline", "userOffline", "onlineUsers"}

\* The array after the presence listeners have handled frame f.
presenceAfterFrame(prev, f) ==
  IF f.ev = "userOnline" THEN addOnlineUser(prev, f)
  ELSE IF f.ev = "userOffline" THEN removeOnlineUser(prev, f)
  ELSE IF f.ev = "onlineUsers" THEN setOnlineUsers(f.users)
  ELSE prev

\* The array after the listeners have handled the frames of a sequence.
RECURSIVE PresenceAfter(_)
PresenceAfter(frames) ==
  IF frames = <<>> THEN {}
  ELSE presenceAfterFrame(PresenceAfter(SubSeq(frames, 1, Len(frames) - 1)),
                          frames[Len(frames)])

\* ------------------------------------------------- the client's ChatWindow
\* The socket whose client has the ChatWindow on screen, and the chat it
\* shows (the chat prop).
WindowConn == 1
OpenChat == 1

\* No setTimeout callback pending.
NoTimeout == [pending |-> FALSE, isTyping |-> FALSE]

\* loadMessages has not been called: the window is not on screen yet.
NoLoad == [at |-> "none", data |-> <<>>, status |-> 0]

\* initialState of the AuthProvider (AuthContext.js lines 7-12), for the
\* token localStorage.getItem('token') returns (None: null).
initialState(stored) ==
  [user |-> None, token |-> stored, isAuthenticated |-> FALSE, loading |-> TRUE]

\* The mount effect of the AuthProvider, not yet run (lines 65-72).
MountEffect == [kind |-> "mount", at |-> "effect", user |-> None, outcome |-> None]

\* The client's components as they mount.
UiInit ==
  /\ newMessage = ""
  /\ isTyping = FALSE
  /\ typingTimeout = NoTimeout
  /\ emits = <<>>
  /\ inputs = 0
  /\ windowMessages = <<>>
  /\ load = NoLoad
  /\ chatList = <<>>
  /\ chatsLoad = NoLoad
  /\ createdShown = {}
  /\ localStorage = None
  /\ authState = initialState(localStorage)
  /\ attempts = <<MountEffect>>

\* --------------------------------------------------------------------- Init
Init ==
  /\ clock = 0
  /\ users = [u \in Users |-> [isOnline |-> FALSE, lastSeen |-> 0]]
  /\ chats = InitialChats
  /\ messages = <<>>
  /\ nextMsgId = 0
  /\ activeUsers = [u \in Users |-> 0]
  /\ sock = [c \in Conns |-> [state |-> "idle", token |-> NoToken,
                              userId |-> None, listeners |-> FALSE]]
  /\ hpc = [c \in Conns |-> [at |-> "none", now |-> 0, atConnect |-> {}]]
  /\ dpc = [c \in Conns |-> [at |-> "none", now |-> 0]]
  /\ rooms = [c \in Conns |-> {}]
  /\ inbox = [c \in Conns |-> <<>>]
  /\ emitted = [u \in Users |-> [online |-> 0, offline |-> 0]]
  /\ edges = [u \in Users |-> [up |-> 0, down |-> 0, downAt |-> 0]]
  /\ sends = <<>>
  /\ reads = <<>>
  /\ creates = <<>>
  /\ typings = <<>>
  /\ typingUsers = [c \in Conns |-> NoTypingUsers]
  /\ timers = [c \in Conns |-> <<>>]
  /\ seen = [c \in Conns |-> 0]
  /\ asked = [c \in Conns |-> "none"]
  /\ onlineUsers = [c \in Conns |-> {}]
  /\ UiInit

\* ------------------------------------------------------------ the clock
Tick ==
  /\ clock < MaxClock
  /\ clock' = clock + 1
  /\ UNCHANGED <<clientVars, dbVars, connVars, rooms, inbox, taskVars>>

\* ------------------------------------------------- connection life cycle
\* The 'connection' handler up to its first await (lines 36-48):
\* activeUsers.set and the User.findByIdAndUpdate it issues.  atConnect
\* remembers the chats the user is in at this moment.
connectionStart(c, u) ==
  /\ activeUsers' = [activeUsers EXCEPT ![u] = c]
  /\ hpc' = [hpc EXCEPT ![c] = [at |-> "update", now |-> clock,
                                atConnect |-> ChatFind(u)]]

\* socketAuth up to its await: a missing token or a failing jwt.verify
\* refuses the connection; otherwise User.findById is awaited.
\* Sockets are numbered in the order in which they open.
socketAuth(c, tok) ==
  /\ sock[c].state = "idle"
  /\ \A d \in Conns : d < c => sock[d].state # "idle"
  /\ LET accepted == tok.present /\ jwtVerify(tok).ok
     IN sock' = [sock EXCEPT ![c] =
                   [state |-> IF accepted THEN "handshake" ELSE "refused",
                    token |-> tok, userId |-> None, listeners |-> FALSE]]
  /\ UNCHANGED <<clientVars, clock, dbVars, activeUsers, hpc, dpc, emitted, edges,
                 rooms, inbox, taskVars>>

\* User.findById resolves: no user refuses the connection; a user sets
\* socket.userId, next() lets the namespace add the socket and the
\* 'connection' handler starts.
socketAuthResolved(c) ==
  /\ sock[c].state = "handshake"
  /\ LET u == UserFindById(jwtVerify(sock[c].token).userId)
     IN IF u = None
        THEN /\ sock' = [sock EXCEPT ![c].state = "refused"]
             /\ UNCHANGED <<activeUsers, hpc, edges>>
        ELSE /\ sock' = [sock EXCEPT ![c].state = "connected", ![c].userId = u]
             /\ edges' = [edges EXCEPT ![u].up = @ + (IF LiveCount(u) = 0 THEN 1 ELSE 0)]
             /\ connectionStart(c, u)
  /\ UNCHANGED <<clientVars, clock, dbVars, dpc, emitted, rooms, inbox, taskVars>>

\* The isOnline update lands; the handler goes on to Chat.find (line 51).
connectionUpdated(c) ==
  /\ hpc[c].at = "update"
  /\ users' = [users EXCEPT ![sock[c].userId] =
                 [isOnline |-> TRUE, lastSeen |-> hpc[c].now]]
  /\ hpc' = [hpc EXCEPT ![c].at = "chats"]
  /\ UNCHANGED <<clientVars, clock, chats, messages, nextMsgId, activeUsers, sock, dpc,
                 emitted, edges, rooms, inbox, taskVars>>

\* Chat.find resolves: join every chat room, broadcast userOnline, attach
\* the frame listeners (lines 52-191).
\* The handler does not look at whether the socket has closed meanwhile:
\* the adapter then records the rooms for an id no broadcast reaches.
connectionJoined(c) ==
  /\ hpc[c].at = "chats"
  /\ LET u == sock[c].userId
     IN /\ rooms' = [rooms EXCEPT ![c] = @ \cup ChatFind(u)]
        /\ inbox' = Deliver(BroadcastTargets(c), [ev |-> "userOnline", userId |-> u])
        /\ emitted' = [emitted EXCEPT ![u].online = @ + 1]
  /\ sock' = [sock EXCEPT ![c].listeners = TRUE]
  /\ hpc' = [hpc EXCEPT ![c].at = "done"]
  /\ UNCHANGED <<clientVars, clock, dbVars, activeUsers, dpc, edges, taskVars>>

\* The 'disconnect' handler up to its await (lines 163-172).
disconnectStart(c) ==
  /\ activeUsers' = [activeUsers EXCEPT ![sock[c].userId] = 0]
  /\ dpc' = [dpc EXCEPT ![c] = [at |-> "update", now |-> clock]]

\* The transport of a socket closes.  A socket still in the handshake is
\* dropped before any 'connection' event.  A connected socket leaves its
\* rooms and the namespace, then 'disconnect' is emitted: the handler runs
\* only if the 'connection' handler has already attached it.
transportClose(c) ==
  /\ sock[c].state \in {"handshake", "connected"}
  /\ sock' = [sock EXCEPT ![c].state = "closed"]
  /\ rooms' = [rooms EXCEPT ![c] = {}]
  /\ IF Connected(c)
     THEN LET u == sock[c].userId
          IN edges' = IF LiveCount(u) = 1
                      THEN [edges EXCEPT ![u].down = @ + 1, ![u].downAt = clock]
                      ELSE edges
     ELSE UNCHANGED edges
  /\ IF Connected(c) /\ sock[c].listeners
     THEN disconnectStart(c)
     ELSE UNCHANGED <<activeUsers, dpc>>
  /\ UNCHANGED <<clientVars, clock, dbVars, hpc, emitted, inbox, taskVars>>

\* The isOnline: false update lands; userOffline is broadcast (174-179).
disconnectUpdated(c) ==
  /\ dpc[c].at = "update"
  /\ LET u == sock[c].userId
     IN /\ users' = [users EXCEPT ![u] = [isOnline |-> FALSE, lastSeen |-> dpc[c].now]]
        /\ inbox' = Deliver(BroadcastTargets(c),
                            [ev |-> "userOffline", userId |-> u, lastSeen |-> clock])
        /\ emitted' = [emitted EXCEPT ![u].offline = @ + 1]
  /\ dpc' = [dpc EXCEPT ![c].at = "done"]
  /\ UNCHANGED <<clientVars, clock, chats, messages, nextMsgId, activeUsers, sock, hpc,
                 edges, rooms, taskVars>>

ConnNext ==
  \/ \E c \in Conns, tok \in Tokens : socketAuth(c, tok)
  \/ \E c \in Conns : socketAuthResolved(c)
  \/ \E c \in Conns : connectionUpdated(c)
  \/ \E c \in Conns : connectionJoined(c)
  \/ \E c \in Conns : transportClose(c)
  \/ \E c \in Conns : disconnectUpdated(c)

SpecConn == Init /\ [][ConnNext]_vars

\* The same while the wall clock advances.
SpecConnClock == Init /\ [][ConnNext \/ Tick]_vars

\* --------------------------------------------------- connected at start
\* The state after every socket of Conns has connected, one after the
\* other, and every 'connection' handler has finished: what the connection
\* life cycle above leaves behind.  Socket 1 is alice's, socket 2 bob's, a
\* third socket alice's second device, a fourth carol's.
LoginOf(c) == IF c = 2 THEN "bob" ELSE IF c = 4 THEN "carol" ELSE "alice"

Logins == {[c \in Conns |-> LoginOf(c)]}

SocketsOf(login, u) == {c \in Conns : login[c] = u}

Max(S) == CHOOSE x \in S : \A y \in S : y <= x

RECURSIVE OnlineFrames(_, _)
OnlineFrames(login, c) ==
  IF c > MaxConns THEN <<>>
  ELSE <<[ev |-> "userOnline", userId |-> login[c]]>> \o OnlineFrames(login, c + 1)

\* The state in which socket c is logged in as login[c].
ActiveState(login) ==
  /\ clock = 0
  /\ users = [u \in Users |-> [isOnline |-> SocketsOf(login, u) # {}, lastSeen |-> 0]]
  /\ chats = InitialChats
  /\ messages = <<>>
  /\ nextMsgId = 0
  /\ activeUsers = [u \in Users |->
                      IF SocketsOf(login, u) = {} THEN 0 ELSE Max(SocketsOf(login, u))]
  /\ sock = [c \in Conns |->
               [state |-> "connected",
                token |-> [present |-> TRUE, signed |-> TRUE, userId |-> login[c]],
                userId |-> login[c], listeners |-> TRUE]]
  /\ hpc = [c \in Conns |->
              [at |-> "done", now |-> 0,
               atConnect |-> {ch \in DOMAIN InitialChats :
                                login[c] \in InitialChats[ch].participants}]]
  /\ dpc = [c \in Conns |-> [at |-> "none", now |-> 0]]
  /\ rooms = [c \in Conns |-> {ch \in DOMAIN InitialChats :
                                 login[c] \in InitialChats[ch].participants}]
  /\ inbox = [c \in Conns |-> OnlineFrames(login, c + 1)]
  /\ emitted = [u \in Users |->
                  [online |-> Cardinality(SocketsOf(login, u)), offline |-> 0]]
  /\ edges = [u \in Users |->
                [up |-> IF SocketsOf(login, u) = {} THEN 0 ELSE 1, down |-> 0,
                 downAt |-> 0]]
  /\ sends = <<>>
  /\ reads = <<>>
  /\ creates = <<>>
  /\ typings = <<>>
  /\ typingUsers = [c \in Conns |-> NoTypingUsers]
  /\ timers = [c \in Conns |-> <<>>]
  /\ seen = [c \in Conns |-> Len(inbox[c])]
  /\ asked = [c \in Conns |-> "dropped"]
  /\ onlineUsers = [c \in Conns |-> PresenceAfter(inbox[c])]
  /\ UiInit

InitActive == \E login \in Logins : ActiveState(login)

\* The same state with every socket a device of alice.
Devices == [c \in Conns |-> "alice"]

InitDevices == ActiveState(Devices)

\* A socket whose frame listeners are attached and whose transport is open.
Active(c) == Connected(c) /\ sock[c].listeners

\* A SelfTarget that reaches the whole namespace: io.emit.
SelfTargetNamespace(c) == ConnectedSockets

\* socket.emit: to the socket itself, if its transport is still open.
SelfTarget(c) == {c} \cap ConnectedSockets

\* Database operations rejected so far: every one ends a handler in "failed".
Faults ==
  Cardinality({i \in 1..Len(sends) : sends[i].at = "failed"})
  + Cardinality({i \in 1..Len(reads) : reads[i].at = "failed"})
  + Cardinality({i \in 1..Len(creates) : creates[i].status = 500})

\* The outcomes of an awaited database operation: it resolves, or (within
\* the fault budget) it rejects.
DbOutcomes == IF Faults < MaxFaults THEN {TRUE, FALSE} ELSE {TRUE}

\* ------------------------------------------------------ joinChat / leaveChat
ChatIds == {1, 2, 3}

joinChat(c, chatId) ==
  /\ Active(c)
  /\ chatId \notin rooms[c]
  /\ rooms' = [rooms EXCEPT ![c] = @ \cup {chatId}]
  /\ UNCHANGED <<clientVars, clock, dbVars, connVars, inbox, taskVars>>

leaveChat(c, chatId) ==
  /\ Active(c)
  /\ chatId \in rooms[c]
  /\ rooms' = [rooms EXCEPT ![c] = @ \ {chatId}]
  /\ UNCHANGED <<clientVars, clock, dbVars, connVars, inbox, taskVars>>

\* ----------------------------------------------------------- sendMessage
\* The payloads of a sendMessage frame: a chat id (9: no such chat) and
\* the content; messageType is left to its default.
SendData == [chatId : {1, 2, 9}, content : {"hi"}, messageType : {"text"}]

\* A ChatFindOne that looks the chat up by its id alone.
ChatFindOneByIdOnly(chatId, u) == IF chatId \in DOMAIN chats THEN chatId ELSE 0

\* Chat.findOne({ _id: chatId, participants: userId }): the chat id, or 0
\* for null.
ChatFindOne(chatId, u) ==
  IF chatId \in DOMAIN chats /\ u \in chats[chatId].participants THEN chatId ELSE 0

\* VALIDATION_RULES.MESSAGE.MAX_LENGTH and MESSAGE_TYPES of shared/types.js.
MaxMessageLength == 1000
MESSAGE_TYPES == {"text", "image", "file"}

\* The length of a content; "long" stands for a text of one character more
\* than the maximum.
ContentLength(content) ==
  IF content = "long" THEN MaxMessageLength + 1 ELSE Len(content)

\* A Message schema without validators.
MessageValidatesNothing(data) == TRUE

\* The validators of the Message schema that message.save runs: content is
\* required and at most MaxMessageLength long, messageType is one of
\* MESSAGE_TYPES.
MessageValidates(data) ==
  /\ ContentLength(data.content) >= 1
  /\ ContentLength(data.content) <= MaxMessageLength
  /\ data.messageType \in MESSAGE_TYPES

\* A Message built without its readBy.
InitialReadByNobody(u, now) == <<>>

\* The readBy of a new Message({ ..., readBy: [{ user }] }): the schema's
\* default stamps the entry with the time of construction.
InitialReadBy(u, now) == <<[user |-> u, readAt |-> now]>>

\* Message.findById(id): the stored document (the id is stored).
MessageFindById(id) == CHOOSE m \in {messages[k] : k \in 1..Len(messages)} : m.id = id

\* The frame a populated message travels in.
NewMessageFrame(m) ==
  [ev |-> "newMessage", message |-> m.id, chat |-> m.chat, sender |-> m.sender,
   content |-> m.content, readBy |-> m.readBy, createdAt |-> m.createdAt]

ErrorFrame(text) == [ev |-> "error", message |-> text]

\* A catch block that only logs the error.
sendFailedLogOnly(i) ==
  /\ sends' = [sends EXCEPT ![i].at = "failed"]
  /\ inbox' = inbox

\* The catch block of the sendMessage handler (lines 122-125).
sendFailed(i) ==
  /\ sends' = [sends EXCEPT ![i].at = "failed", ![i].errors = @ + 1]
  /\ inbox' = Deliver(SelfTarget(sends[i].conn), ErrorFrame("Failed to send message"))

\* A sendMessage frame arrives: the handler destructures the payload and
\* awaits Chat.findOne (lines 75-83).
sendMessage(c, data) ==
  /\ Active(c)
  /\ Len(sends) < MaxSends
  /\ sends' = Append(sends, [conn |-> c, user |-> sock[c].userId, data |-> data,
                             at |-> "findChat", message |-> 0, lastActivity |-> 0,
                             builtAt |-> 0, errors |-> 0])
  /\ UNCHANGED <<clientVars, clock, dbVars, connVars, rooms, inbox, reads, creates>>

\* Chat.findOne resolves: null answers 'Chat not found'; a chat lets the
\* handler build the Message and await message.save (lines 85-99).
sendFoundChat(i, ok) ==
  /\ i \in 1..Len(sends)
  /\ sends[i].at = "findChat"
  /\ IF ~ok
     THEN /\ sendFailed(i)
          /\ UNCHANGED nextMsgId
     ELSE IF ChatFindOne(sends[i].data.chatId, sends[i].user) = 0
     THEN /\ sends' = [sends EXCEPT ![i].at = "rejected", ![i].errors = @ + 1]
          /\ inbox' = Deliver(SelfTarget(sends[i].conn), ErrorFrame("Chat not found"))
          /\ UNCHANGED nextMsgId
     ELSE /\ nextMsgId' = nextMsgId + 1
          /\ sends' = [sends EXCEPT ![i].at = "saveMessage",
                                    ![i].message = nextMsgId + 1,
                                    ![i].builtAt = clock]
          /\ UNCHANGED inbox
  /\ UNCHANGED <<clientVars, clock, users, chats, messages, connVars, rooms, reads, creates>>

\* message.save resolves: the document is stored (a document its schema
\* does not validate is rejected like a failed write); the handler sets
\* lastMessage and lastActivity on its chat document and awaits chat.save
\* (lines 99-104).
sendSavedMessage(i, ok) ==
  /\ i \in 1..Len(sends)
  /\ sends[i].at = "saveMessage"
  /\ IF ~ok \/ ~MessageValidates(sends[i].data)
     THEN /\ sendFailed(i)
          /\ UNCHANGED messages
     ELSE /\ messages' = Append(messages,
                                [id |-> sends[i].message,
                                 chat |-> sends[i].data.chatId,
                                 sender |-> sends[i].user,
                                 content |-> sends[i].data.content,
                                 messageType |-> sends[i].data.messageType,
                                 readBy |-> InitialReadBy(sends[i].user, sends[i].builtAt),
                                 createdAt |-> sends[i].builtAt])
          /\ sends' = [sends EXCEPT ![i].at = "saveChat", ![i].lastActivity = clock]
          /\ UNCHANGED inbox
  /\ UNCHANGED <<clientVars, clock, users, chats, nextMsgId, connVars, rooms, reads, creates>>

\* chat.save resolves: the two modified paths are written; the handler
\* awaits Message.findById(...).populate (lines 104-108).
sendSavedChat(i, ok) ==
  /\ i \in 1..Len(sends)
  /\ sends[i].at = "saveChat"
  /\ IF ~ok
     THEN /\ sendFailed(i)
          /\ UNCHANGED chats
     ELSE /\ chats' = [chats EXCEPT ![sends[i].data.chatId].lastMessage = sends[i].message,
                                    ![sends[i].data.chatId].lastActivity = sends[i].lastActivity]
          /\ sends' = [sends EXCEPT ![i].at = "populate"]
          /\ UNCHANGED inbox
  /\ UNCHANGED <<clientVars, clock, users, messages, nextMsgId, connVars, rooms, reads, creates>>

\* The populated message arrives and is broadcast to the room (line 111).
sendPopulated(i, ok) ==
  /\ i \in 1..Len(sends)
  /\ sends[i].at = "populate"
  /\ IF ~ok
     THEN sendFailed(i)
     ELSE /\ sends' = [sends EXCEPT ![i].at = "done"]
          /\ inbox' = Deliver(RoomTargets(sends[i].data.chatId),
                              NewMessageFrame(MessageFindById(sends[i].message)))
  /\ UNCHANGED <<clientVars, clock, dbVars, connVars, rooms, reads, creates>>

SendNext ==
  \/ \E c \in Conns, data \in SendData : sendMessage(c, data)
  \/ \E i \in 1..MaxSends, ok \in DbOutcomes : sendFoundChat(i, ok)
  \/ \E i \in 1..MaxSends, ok \in DbOutcomes : sendSavedMessage(i, ok)
  \/ \E i \in 1..MaxSends, ok \in DbOutcomes : sendSavedChat(i, ok)
  \/ \E i \in 1..MaxSends, ok \in DbOutcomes : sendPopulated(i, ok)

SpecSend == InitActive /\ [][SendNext]_vars

SpecSendClock == InitActive /\ [][SendNext \/ Tick]_vars

\* ------------------------------------------- POST /api/chats/:chatId/messages
\* The requests: the authenticated caller, the chat id of the path and the
\* body; an empty content fails the notEmpty check of the route.
PostRequests == [caller : {"alice", "carol"}, chatId : {1, 2}, content : {"hi", ""}]

\* The route destructures the request; express-validator answers 400, or
\* Chat.findOne is awaited (part_004 lines 132-148).  The request is logged
\* with the socket handlers' invocations, under no socket.
postMessage(req) ==
  /\ Len(sends) < MaxSends
  /\ sends' = Append(sends,
       [conn |-> 0, user |-> req.caller,
        data |-> [chatId |-> req.chatId, content |-> req.content, messageType |-> "text"],
        at |-> IF req.content = "" THEN "responded" ELSE "post.findChat",
        message |-> 0, lastActivity |-> 0, builtAt |-> 0, errors |-> 0,
        status |-> IF req.content = "" THEN 400 ELSE 0])
  /\ UNCHANGED <<clientVars, clock, dbVars, connVars, rooms, inbox, reads, creates>>

\* The catch block of the route: 500 (lines 175-178).
postFailed(i) == sends' = [sends EXCEPT ![i].at = "failed", ![i].status = 500]

\* Chat.findOne resolves: 404, or the Message is built and message.save
\* awaited (lines 150-163).
postFoundChat(i, ok) ==
  /\ i \in 1..Len(sends)
  /\ sends[i].at = "post.findChat"
  /\ IF ~ok
     THEN /\ postFailed(i)
          /\ UNCHANGED nextMsgId
     ELSE IF ChatFindOne(sends[i].data.chatId, sends[i].user) = 0
     THEN /\ sends' = [sends EXCEPT ![i].at = "responded", ![i].status = 404]
          /\ UNCHANGED nextMsgId
     ELSE /\ nextMsgId' = nextMsgId + 1
          /\ sends' = [sends EXCEPT ![i].at = "post.saveMessage",
                                    ![i].message = nextMsgId + 1,
                                    ![i].builtAt = clock]
  /\ UNCHANGED <<clientVars, clock, users, chats, messages, connVars, rooms, inbox,
                 reads, creates>>

\* message.save resolves; chat.save is awaited (lines 163-168).
postSavedMessage(i, ok) ==
  /\ i \in 1..Len(sends)
  /\ sends[i].at = "post.saveMessage"
  /\ IF ~ok \/ ~MessageValidates(sends[i].data)
     THEN /\ postFailed(i)
          /\ UNCHANGED messages
     ELSE /\ messages' = Append(messages,
                                [id |-> sends[i].message,
                                 chat |-> sends[i].data.chatId,
                                 sender |-> sends[i].user,
                                 content |-> sends[i].data.content,
                                 messageType |-> sends[i].data.messageType,
                                 readBy |-> InitialReadBy(sends[i].user, sends[i].builtAt),
                                 createdAt |-> sends[i].builtAt])
          /\ sends' = [sends EXCEPT ![i].at = "post.saveChat", ![i].lastActivity = clock]
  /\ UNCHANGED <<clientVars, clock, users, chats, nextMsgId, connVars, rooms, inbox,
                 reads, creates>>

\* chat.save resolves; the populated message is awaited (lines 168-172).
postSavedChat(i, ok) ==
  /\ i \in 1..Len(sends)
  /\ sends[i].at = "post.saveChat"
  /\ IF ~ok
     THEN /\ postFailed(i)
          /\ UNCHANGED chats
     ELSE /\ chats' = [chats EXCEPT ![sends[i].data.chatId].lastMessage = sends[i].message,
                                    ![sends[i].data.chatId].lastActivity = sends[i].lastActivity]
          /\ sends' = [sends EXCEPT ![i].at = "post.populate"]
  /\ UNCHANGED <<clientVars, clock, users, messages, nextMsgId, connVars, rooms, inbox,
                 reads, creates>>

\* The populated message is the body of the 201 response (line 174); no
\* frame is emitted.
postPopulated(i, ok) ==
  /\ i \in 1..Len(sends)
  /\ sends[i].at = "post.populate"
  /\ IF ~ok THEN postFailed(i)
     ELSE sends' = [sends EXCEPT ![i].at = "responded", ![i].status = 201]
  /\ UNCHANGED <<clientVars, clock, dbVars, connVars, rooms, inbox, reads, creates>>

PostNext ==
  \/ \E req \in PostRequests : postMessage(req)
  \/ \E i \in 1..MaxSends, ok \in DbOutcomes : postFoundChat(i, ok)
  \/ \E i \in 1..MaxSends, ok \in DbOutcomes : postSavedMessage(i, ok)
  \/ \E i \in 1..MaxSends, ok \in DbOutcomes : postSavedChat(i, ok)
  \/ \E i \in 1..MaxSends, ok \in DbOutcomes : postPopulated(i, ok)

\* Messages created over the socket and over the REST route.
SpecPost == InitActive /\ [][SendNext \/ PostNext]_vars

\* sendMessage payloads with an empty or overlong content or a
\* messageType that is no message type.
AnySendData == [chatId : {1}, content : {"hi", "", "long"}, messageType : {"text", "video"}]

SendAnyNext ==
  \/ \E c \in Conns, data \in AnySendData : sendMessage(c, data)
  \/ SendNext

\* Connected clients sending well-formed and ill-formed messages.
SpecSendAny == InitActive /\ [][SendAnyNext]_vars

\* ------------------------------------------------------------- markAsRead
\* The payloads of a markAsRead frame (message 9: no such message).
ReadData == [messageId : {1, 9}, chatId : {1, 2}]

\* MongoDB's $addToSet: append the value unless an equal element is there.
AddToSet(seq, e) ==
  IF \E k \in 1..Len(seq) : seq[k] = e THEN seq ELSE Append(seq, e)

\* An update that sets readBy to the one entry ($set for $addToSet).
MessageSetReadBy(id, entry) ==
  [k \in 1..Len(messages) |->
     IF messages[k].id = id
     THEN [messages[k] EXCEPT !.readBy = <<entry>>]
     ELSE messages[k]]

\* Message.findByIdAndUpdate(id, { $addToSet: { readBy: entry } }): the
\* collection after the update; an unknown id updates nothing.
MessageAddReadBy(id, entry) ==
  [k \in 1..Len(messages) |->
     IF messages[k].id = id
     THEN [messages[k] EXCEPT !.readBy = AddToSet(@, entry)]
     ELSE messages[k]]

\* A markAsRead frame arrives: the handler builds the update, readAt being
\* new Date() at that moment, and awaits it (lines 139-147).
markAsRead(c, data) ==
  /\ Active(c)
  /\ Len(reads) < MaxReads
  /\ reads' = Append(reads, [conn |-> c, user |-> sock[c].userId, data |-> data,
                             readAt |-> clock, at |-> "update"])
  /\ UNCHANGED <<clientVars, clock, dbVars, connVars, rooms, inbox, sends, creates>>

\* The update resolves: messageRead goes to the room named in the frame,
\* the marking socket excepted (lines 149-154); a rejection is only logged.
readUpdated(i, ok) ==
  /\ i \in 1..Len(reads)
  /\ reads[i].at = "update"
  /\ IF ~ok
     THEN /\ reads' = [reads EXCEPT ![i].at = "failed"]
          /\ UNCHANGED <<messages, inbox>>
     ELSE /\ messages' = MessageAddReadBy(reads[i].data.messageId,
                                          [user |-> reads[i].user, readAt |-> reads[i].readAt])
          /\ inbox' = Deliver(RoomTargetsExcept(reads[i].conn, reads[i].data.chatId),
                              [ev |-> "messageRead", messageId |-> reads[i].data.messageId,
                               userId |-> reads[i].user, readAt |-> clock])
          /\ reads' = [reads EXCEPT ![i].at = "done"]
  /\ UNCHANGED <<clientVars, clock, users, chats, nextMsgId, connVars, rooms, sends, creates>>

ReadNext ==
  \/ \E c \in Conns, data \in ReadData : markAsRead(c, data)
  \/ \E i \in 1..MaxReads, ok \in DbOutcomes : readUpdated(i, ok)

\* The first message, "hi", as socket c of the login sends it to chatId.
FirstSent(login, c, chatId) ==
  [id |-> 1, chat |-> chatId, sender |-> login[c], content |-> "hi",
   messageType |-> "text", readBy |-> InitialReadBy(login[c], 0),
   createdAt |-> 0]

\* The state ActiveState(login) reaches when socket c has sent "hi" to
\* chatId, a chat of its user, and the handler has finished.
SentState(login, c, chatId) ==
  /\ clock = 0
  /\ users = [u \in Users |-> [isOnline |-> SocketsOf(login, u) # {}, lastSeen |-> 0]]
  /\ chats = [InitialChats EXCEPT ![chatId].lastMessage = 1]
  /\ messages = <<FirstSent(login, c, chatId)>>
  /\ nextMsgId = 1
  /\ activeUsers = [u \in Users |->
                      IF SocketsOf(login, u) = {} THEN 0 ELSE Max(SocketsOf(login, u))]
  /\ sock = [d \in Conns |->
               [state |-> "connected",
                token |-> [present |-> TRUE, signed |-> TRUE, userId |-> login[d]],
                userId |-> login[d], listeners |-> TRUE]]
  /\ hpc = [d \in Conns |->
              [at |-> "done", now |-> 0,
               atConnect |-> {ch \in DOMAIN InitialChats :
                                login[d] \in InitialChats[ch].participants}]]
  /\ dpc = [d \in Conns |-> [at |-> "none", now |-> 0]]
  /\ rooms = [d \in Conns |-> {ch \in DOMAIN InitialChats :
                                 login[d] \in InitialChats[ch].participants}]
  /\ inbox = [d \in Conns |->
                OnlineFrames(login, d + 1) \o
                (IF login[d] \in InitialChats[chatId].participants
                 THEN <<NewMessageFrame(FirstSent(login, c, chatId))>>
                 ELSE <<>>)]
  /\ emitted = [u \in Users |->
                  [online |-> Cardinality(SocketsOf(login, u)), offline |-> 0]]
  /\ edges = [u \in Users |->
                [up |-> IF SocketsOf(login, u) = {} THEN 0 ELSE 1, down |-> 0,
                 downAt |-> 0]]
  /\ sends = <<[conn |-> c, user |-> login[c],
                data |-> [chatId |-> chatId, content |-> "hi", messageType |-> "text"],
                at |-> "done", message |-> 1, lastActivity |-> 0,
                builtAt |-> 0, errors |-> 0]>>
  /\ reads = <<>>
  /\ creates = <<>>
  /\ typings = <<>>
  /\ typingUsers = [d \in Conns |-> NoTypingUsers]
  /\ timers = [d \in Conns |-> <<>>]
  /\ seen = [d \in Conns |-> Len(inbox[d])]
  /\ asked = [d \in Conns |-> "dropped"]
  /\ onlineUsers = [d \in Conns |-> PresenceAfter(inbox[d])]
  /\ UiInit

\* alice's socket 1 has sent "hi" to chat 1.
FirstMessage == FirstSent([c \in Conns |-> LoginOf(c)], 1, 1)

InitRead == \E login \in Logins : SentState(login, 1, 1)

\* bob's socket 2 has sent "hi" to chat 2, of which alice is no participant.
InitReadOther == \E login \in Logins : SentState(login, 2, 2)

SpecRead == InitRead /\ [][ReadNext \/ Tick]_vars

\* ---------------------------------------------------------- POST /api/chats
\* The requests: the authenticated caller and the body.  The participants
\* array is kept as the set of its elements.
CreateRequests ==
  [caller : {"alice", "carol"},
   participants : {{}, {"alice"}, {"bob"}, {"carol"}, {"bob", "carol"}, {"ghost"}},
   isGroupChat : BOOLEAN]

\* Chat.findOne({ isGroupChat: false, participants: { $all, $size: 2 } }).
ChatFindDirect(all) ==
  LET found == {ch \in DOMAIN chats :
                  /\ ~chats[ch].isGroupChat
                  /\ all \subseteq chats[ch].participants
                  /\ Cardinality(chats[ch].participants) = 2}
  IN IF found = {} THEN 0 ELSE CHOOSE ch \in found : \A x \in found : ch <= x

\* User.find({ _id: { $in: ids } }): the users among ids that exist.
UserFindIn(ids) == ids \cap Users

\* The id new Chat() draws: fresh among stored and constructed chats.
NextChatId ==
  1 + Max(DOMAIN chats \cup {creates[i].chat : i \in 1..Len(creates)})

\* The request arrives: validation, allParticipants, and the first await,
\* the lookup of an existing direct chat or the participant check
\* (lines 44-70).
createChat(req) ==
  /\ Len(creates) < MaxCreates
  /\ LET all == {req.caller} \cup req.participants
     IN creates' = Append(creates,
          [caller |-> req.caller, all |-> all, isGroupChat |-> req.isGroupChat,
           chat |-> 0, activity |-> 0,
           status |-> IF req.participants = {} THEN 400 ELSE 0,
           at |-> IF req.participants = {} THEN "done"
                  ELSE IF ~req.isGroupChat /\ Cardinality(all) = 2 THEN "findExisting"
                  ELSE "validate"])
  /\ UNCHANGED <<clientVars, clock, dbVars, connVars, rooms, inbox, sends, reads>>

\* The catch block: 500 (lines 92-95).
createFailed(i) == creates' = [creates EXCEPT ![i].at = "done", ![i].status = 500]

\* The lookup resolves: an existing chat is returned (lines 62-64).
createFoundExisting(i, ok) ==
  /\ i \in 1..Len(creates)
  /\ creates[i].at = "findExisting"
  /\ IF ~ok THEN createFailed(i)
     ELSE IF ChatFindDirect(creates[i].all) # 0
     THEN creates' = [creates EXCEPT ![i].at = "done", ![i].status = 200,
                                     ![i].chat = ChatFindDirect(creates[i].all),
                                     ![i].activity =
                                       chats[ChatFindDirect(creates[i].all)].lastActivity]
     ELSE creates' = [creates EXCEPT ![i].at = "validate"]
  /\ UNCHANGED <<clientVars, clock, dbVars, connVars, rooms, inbox, sends, reads>>

\* User.find resolves: an unknown participant answers 400; otherwise the
\* Chat is constructed and chat.save awaited (lines 72-84).
createValidated(i, ok) ==
  /\ i \in 1..Len(creates)
  /\ creates[i].at = "validate"
  /\ IF ~ok THEN createFailed(i)
     ELSE IF Cardinality(UserFindIn(creates[i].all)) # Cardinality(creates[i].all)
     THEN creates' = [creates EXCEPT ![i].at = "done", ![i].status = 400]
     ELSE creates' = [creates EXCEPT ![i].at = "save", ![i].chat = NextChatId]
  /\ UNCHANGED <<clientVars, clock, dbVars, connVars, rooms, inbox, sends, reads>>

\* chat.save resolves: the chat is stored; the populate lookup is awaited
\* (lines 84-89).
createSaved(i, ok) ==
  /\ i \in 1..Len(creates)
  /\ creates[i].at = "save"
  /\ IF ~ok
     THEN /\ createFailed(i)
          /\ UNCHANGED chats
     ELSE /\ chats' = chats @@
                      (creates[i].chat :>
                         [participants |-> creates[i].all,
                          isGroupChat |-> creates[i].isGroupChat,
                          admin |-> IF creates[i].isGroupChat
                                    THEN creates[i].caller ELSE None,
                          lastMessage |-> 0, lastActivity |-> clock])
          /\ creates' = [creates EXCEPT ![i].at = "populate"]
  /\ UNCHANGED <<clientVars, clock, users, messages, nextMsgId, connVars, rooms, inbox, sends, reads>>

\* The populated chat is returned with 201 (line 91).
createResponded(i, ok) ==
  /\ i \in 1..Len(creates)
  /\ creates[i].at = "populate"
  /\ IF ~ok THEN createFailed(i)
     ELSE creates' = [creates EXCEPT ![i].at = "done", ![i].status = 201,
                                     ![i].activity = chats[creates[i].chat].lastActivity]
  /\ UNCHANGED <<clientVars, clock, dbVars, connVars, rooms, inbox, sends, reads>>

CreateNext ==
  \/ \E req \in CreateRequests : createChat(req)
  \/ \E i \in 1..MaxCreates, ok \in DbOutcomes : createFoundExisting(i, ok)
  \/ \E i \in 1..MaxCreates, ok \in DbOutcomes : createValidated(i, ok)
  \/ \E i \in 1..MaxCreates, ok \in DbOutcomes : createSaved(i, ok)
  \/ \E i \in 1..MaxCreates, ok \in DbOutcomes : createResponded(i, ok)

\* ------------------------------------------------------------------ typing
\* The payloads of a typing frame, as sendTyping(chatId, isTyping) builds
\* them.
TypingData == [chatId : {1, 2}, isTyping : BOOLEAN]

\* The userTyping payload the handler builds (lines 131-135): the typing
\* user and the flag.  cause is not a field of the payload: it numbers the
\* typing frame the broadcast answers, for the properties below.
UserTypingFrame(u, flag, cause) ==
  [ev |-> "userTyping", userId |-> u, isTyping |-> flag, cause |-> cause]

\* A typing frame arrives: the handler runs to its end in one slice,
\* emitting to the room named in the frame, its own socket excepted.
typing(c, data) ==
  /\ Active(c)
  /\ Len(typings) < MaxTypings
  /\ typings' = Append(typings, [conn |-> c, user |-> sock[c].userId, data |-> data])
  /\ inbox' = Deliver(RoomTargetsExcept(c, data.chatId),
                      UserTypingFrame(sock[c].userId, data.isTyping, Len(typings) + 1))
  /\ UNCHANGED <<clock, dbVars, connVars, rooms, taskVars, typingUsers, timers, seen, asked, onlineUsers, uiVars>>

TypingNext == \E c \in Conns, data \in TypingData : typing(c, data)

\* ------------------------------------------------- the client's listeners
\* data.chatId as the client reads it: the field, or undefined when the
\* payload has none.
FrameChatId(data) == IF "chatId" \in DOMAIN data THEN data.chatId ELSE Undefined

\* What the userTyping listener files under the user: the payload while
\* typing, null otherwise.
typingEntry(data) == IF data.isTyping THEN data ELSE NullEntry

\* A timeout callback that files the payload it closed over again.
expiredEntryStale(data) == data

\* What the timeout callback files under the user: null.
expiredEntry(data) == NullEntry

\* setTypingUsers(prev => ({...prev, [key]: {...prev[key], [u]: entry}})).
SetTypingUsers(c, key, u, entry) ==
  [typingUsers EXCEPT ![c][key][u] = entry]

\* The client's userTyping listener takes the next frame of its socket:
\* it files the entry and, for a positive frame, schedules the callback
\* that clears it; the handle setTimeout returns is dropped.
userTyping(c) ==
  /\ seen[c] < Len(inbox[c])
  /\ LET data == inbox[c][seen[c] + 1] IN
       /\ data.ev = "userTyping"
       /\ typingUsers' = SetTypingUsers(c, FrameChatId(data), data.userId, typingEntry(data))
       /\ timers' = IF data.isTyping
                    THEN [timers EXCEPT ![c] = Append(@, [data |-> data, frame |-> seen[c] + 1])]
                    ELSE timers
  /\ seen' = [seen EXCEPT ![c] = @ + 1]
  /\ UNCHANGED <<clock, dbVars, connVars, rooms, inbox, taskVars, typings, asked, onlineUsers, uiVars>>

\* The oldest pending timeout of a client fires (all are set for the same
\* 3000 ms, so they fire in the order they were set).
typingExpired(c) ==
  /\ timers[c] # <<>>
  /\ LET t == Head(timers[c]) IN
       typingUsers' = SetTypingUsers(c, FrameChatId(t.data), t.data.userId,
                                     expiredEntry(t.data))
  /\ timers' = [timers EXCEPT ![c] = Tail(@)]
  /\ UNCHANGED <<clock, dbVars, connVars, rooms, inbox, taskVars, typings, seen, asked, onlineUsers, uiVars>>

\* A frame of another event: its listeners leave the typing state alone.
otherFrame(c) ==
  /\ seen[c] < Len(inbox[c])
  /\ inbox[c][seen[c] + 1].ev \notin PresenceEvents \cup {"userTyping", "newMessage"}
  /\ seen' = [seen EXCEPT ![c] = @ + 1]
  /\ UNCHANGED <<clock, dbVars, connVars, rooms, inbox, taskVars, typings,
                 typingUsers, timers, asked, onlineUsers, uiVars>>

\* A userOnline, userOffline or onlineUsers frame reaches its listener.
presenceFrame(c, ev) ==
  /\ seen[c] < Len(inbox[c])
  /\ inbox[c][seen[c] + 1].ev = ev
  /\ onlineUsers' = [onlineUsers EXCEPT
                       ![c] = presenceAfterFrame(@, inbox[c][seen[c] + 1])]
  /\ seen' = [seen EXCEPT ![c] = @ + 1]
  /\ UNCHANGED <<clock, dbVars, connVars, rooms, inbox, taskVars, typings,
                 typingUsers, timers, asked, uiVars>>

\* The userOnline listener (part_001 lines 40-48).
userOnline(c) == presenceFrame(c, "userOnline")

\* The userOffline listener (lines 50-52).
userOffline(c) == presenceFrame(c, "userOffline")

\* The onlineUsers listener (lines 54-56).
onlineUsersReceived(c) == presenceFrame(c, "onlineUsers")

PresenceNext ==
  \/ \E c \in Conns : userOnline(c)
  \/ \E c \in Conns : userOffline(c)
  \/ \E c \in Conns : onlineUsersReceived(c)

\* getChatTypingUsers(chatId) of client c: the non-null entries of the chat.
getChatTypingUsers(c, chatId) ==
  {typingUsers[c][chatId][u] : u \in Users} \ {NullEntry}

ClientNext ==
  \/ \E c \in Conns : userTyping(c)
  \/ \E c \in Conns : typingExpired(c)

\* Connected clients typing and showing who types.
SpecTyping == InitActive /\ [][TypingNext \/ ClientNext]_vars

\* Messages sent between two users, or between two devices of one user.
SpecSendDevices == (InitActive \/ InitDevices) /\ [][SendNext]_vars

\* Messages of either chat marked read.
SpecReadAny == (InitRead \/ InitReadOther) /\ [][ReadNext]_vars

\* Two devices of one user typing and marking messages read.
SpecDevices == InitDevices /\ [][TypingNext \/ ReadNext]_vars

\* The onlineUsers snapshot the getOnlineUsers handler builds from
\* activeUsers (lines 183-190), as the set of its user ids.
onlineUsersList == {u \in Users : activeUsers[u] # 0}

\* ------------------------------------------------------- getOnlineUsers
\* The client's socket connects: the getOnlineUsers it emitted when it
\* created the socket (part_001 line 89) leaves its send buffer.
clientConnect(c) ==
  /\ Connected(c)
  /\ asked[c] = "none"
  /\ asked' = [asked EXCEPT ![c] = "sent"]
  /\ UNCHANGED <<clock, dbVars, connVars, rooms, inbox, taskVars, typingVars, onlineUsers, uiVars>>

\* The getOnlineUsers frame reaches the server: the listener, if the
\* 'connection' handler has attached it by now, replies with the snapshot
\* (lines 183-190); a frame with no listener is dropped.
getOnlineUsers(c) ==
  /\ Connected(c)
  /\ asked[c] = "sent"
  /\ IF sock[c].listeners
     THEN /\ inbox' = Deliver({c}, [ev |-> "onlineUsers", users |-> onlineUsersList])
          /\ asked' = [asked EXCEPT ![c] = "answered"]
     ELSE /\ asked' = [asked EXCEPT ![c] = "dropped"]
          /\ UNCHANGED inbox
  /\ UNCHANGED <<clock, dbVars, connVars, rooms, taskVars, typingVars, onlineUsers, uiVars>>

SnapshotNext ==
  \/ \E c \in Conns : clientConnect(c)
  \/ \E c \in Conns : getOnlineUsers(c)

\* Clients connecting, asking for the snapshot and closing.
SpecSnapshot == Init /\ [][ConnNext \/ SnapshotNext]_vars

\* Every database reply a handler awaits arrives, and every frame a client
\* has sent on an open transport arrives.
SnapshotFairness ==
  \A c \in Conns :
    /\ WF_vars(socketAuthResolved(c))
    /\ WF_vars(connectionUpdated(c))
    /\ WF_vars(connectionJoined(c))
    /\ WF_vars(disconnectUpdated(c))
    /\ WF_vars(clientConnect(c))
    /\ WF_vars(getOnlineUsers(c))

SpecSnapshotFair == SpecSnapshot /\ SnapshotFairness

\* Clients connecting and closing while their presence listeners run.
SpecPresence == Init /\ [][ConnNext \/ SnapshotNext \/ PresenceNext]_vars

\* ------------------------------------------------ ChatWindow: typing
\* The texts the input field takes: empty, blank, and with a character.
InputValues == {"", " ", "a"}

\* String.prototype.trim on those texts.
Trim(v) == IF v = " " THEN "" ELSE v

\* sendTyping(chatId, flag) of the SocketProvider (part_001 lines 124-128):
\* the frame is emitted if the provider holds a socket.
sendTyping(out, chatId, flag) ==
  IF Connected(WindowConn)
  THEN Append(out, [ev |-> "typing", chatId |-> chatId, isTyping |-> flag])
  ELSE out

\* sendMessage(messageData) of the SocketProvider (lines 118-122).
emitSendMessage(out, data) ==
  IF Connected(WindowConn) THEN Append(out, [ev |-> "sendMessage", data |-> data])
  ELSE out

\* The timeout callback handleTyping creates: it tests the isTyping of the
\* render that created it.
NewTimeout(captured) == [pending |-> TRUE, isTyping |-> captured]

\* onChange of the input field (part_002 lines 242-262): the text is stored,
\* typing=true is sent if the window was not typing, the pending timeout is
\* cleared and a new one set.
handleTyping(value) ==
  /\ inputs < MaxInputs
  /\ inputs' = inputs + 1
  /\ newMessage' = value
  /\ IF ~isTyping /\ Trim(value) # ""
     THEN /\ isTyping' = TRUE
          /\ emits' = sendTyping(emits, OpenChat, TRUE)
     ELSE UNCHANGED <<isTyping, emits>>
  /\ typingTimeout' = NewTimeout(isTyping)
  /\ UNCHANGED <<clock, dbVars, connVars, rooms, inbox, taskVars, typingVars,
                 asked, onlineUsers, historyVars, listVars, authVars>>

\* The timeout set by handleTyping fires after a second (lines 256-261).
typingTimeoutFired ==
  /\ typingTimeout.pending
  /\ typingTimeout' = NoTimeout
  /\ IF typingTimeout.isTyping
     THEN /\ isTyping' = FALSE
          /\ emits' = sendTyping(emits, OpenChat, FALSE)
     ELSE UNCHANGED <<isTyping, emits>>
  /\ UNCHANGED <<clock, dbVars, connVars, rooms, inbox, taskVars, typingVars,
                 asked, onlineUsers, newMessage, inputs, historyVars, listVars, authVars>>

\* The form is submitted (lines 221-240): a blank text returns; otherwise
\* the message is emitted, the field cleared and typing=false sent if the
\* window was typing.  The pending timeout is left as it is.
handleSendMessage ==
  /\ inputs < MaxInputs
  /\ inputs' = inputs + 1
  /\ IF Trim(newMessage) = ""
     THEN UNCHANGED <<newMessage, isTyping, emits>>
     ELSE /\ newMessage' = ""
          /\ LET sent == emitSendMessage(emits,
                           [chatId |-> OpenChat, content |-> Trim(newMessage),
                            messageType |-> "text"])
             IN IF isTyping
                THEN /\ emits' = sendTyping(sent, OpenChat, FALSE)
                     /\ isTyping' = FALSE
                ELSE /\ emits' = sent
                     /\ UNCHANGED isTyping
  /\ UNCHANGED <<clock, dbVars, connVars, rooms, inbox, taskVars, typingVars,
                 asked, onlineUsers, typingTimeout, historyVars, listVars, authVars>>

WindowTypingNext ==
  \/ \E value \in InputValues : handleTyping(value)
  \/ typingTimeoutFired
  \/ handleSendMessage

\* A user typing into the ChatWindow of a connected client.
SpecChatWindow == InitActive /\ [][WindowTypingNext]_vars

\* A timeout that has been set and not cleared fires.
SpecChatWindowFair == SpecChatWindow /\ WF_vars(typingTimeoutFired)

\* ------------------------------------------------ ChatWindow: messages
\* Message.find({ chat }).sort({ createdAt: -1 }).limit().skip() reversed
\* (part_004 lines 116-122): the ids of the chat's stored messages, oldest
\* first; the collection holds them in the order of their saves, and the
\* page holds them all.
RECURSIVE MessagesOfChat(_, _)
MessagesOfChat(list, chatId) ==
  IF list = <<>> THEN <<>>
  ELSE LET rest == MessagesOfChat(SubSeq(list, 1, Len(list) - 1), chatId)
           last == list[Len(list)]
       IN IF last.chat = chatId THEN Append(rest, last.id) ELSE rest

\* The effect of the window for its chat (part_002 lines 159-168, 189-194):
\* loadMessages sends GET /api/chats/:chatId/messages and awaits it.
loadMessages ==
  /\ load.at = "none"
  /\ load' = [load EXCEPT !.at = "findChat"]
  /\ UNCHANGED <<clock, dbVars, connVars, rooms, inbox, taskVars, typingVars,
                 asked, onlineUsers, windowVars, windowMessages, listVars, authVars>>

\* Chat.findOne of the route resolves (part_004 lines 107-114): 404 unless
\* the caller is a participant; a failed lookup answers 500.
getMessagesFoundChat(ok) ==
  /\ load.at = "findChat"
  /\ load' = IF ~ok THEN [load EXCEPT !.at = "response", !.status = 500]
             ELSE IF ChatFindOne(OpenChat, sock[WindowConn].userId) = 0
             THEN [load EXCEPT !.at = "response", !.status = 404]
             ELSE [load EXCEPT !.at = "findMessages"]
  /\ UNCHANGED <<clock, dbVars, connVars, rooms, inbox, taskVars, typingVars,
                 asked, onlineUsers, windowVars, windowMessages, listVars, authVars>>

\* Message.find resolves and the page is sent (lines 116-122).
getMessagesFound(ok) ==
  /\ load.at = "findMessages"
  /\ load' = IF ~ok THEN [load EXCEPT !.at = "response", !.status = 500]
             ELSE [at |-> "response", status |-> 200,
                   data |-> MessagesOfChat(messages, OpenChat)]
  /\ UNCHANGED <<clock, dbVars, connVars, rooms, inbox, taskVars, typingVars,
                 asked, onlineUsers, windowVars, windowMessages, listVars, authVars>>

\* The response reaches loadMessages (part_002 lines 195-202): the page
\* replaces the messages state; an error response is reported only.
messagesLoaded ==
  /\ load.at = "response"
  /\ load' = [load EXCEPT !.at = "done"]
  /\ windowMessages' = IF load.status = 200 THEN load.data ELSE windowMessages
  /\ UNCHANGED <<clock, dbVars, connVars, rooms, inbox, taskVars, typingVars,
                 asked, onlineUsers, windowVars, listVars, authVars>>

\* handleNewMessage of the ChatWindow (lines 204-208): a message of the
\* open chat is appended.
windowNewMessage(prev, message) ==
  IF message.chat = OpenChat THEN Append(prev, message.message) ELSE prev

\* Array.prototype.sort with (a, b) => new Date(b.lastActivity) -
\* new Date(a.lastActivity): newest first, equal entries in their order.
RECURSIVE InsertByActivity(_, _)
InsertByActivity(sorted, x) ==
  IF sorted = <<>> THEN <<x>>
  ELSE IF Head(sorted).lastActivity >= x.lastActivity
       THEN <<Head(sorted)>> \o InsertByActivity(Tail(sorted), x)
       ELSE <<x>> \o sorted

RECURSIVE SortByActivity(_)
SortByActivity(list) ==
  IF list = <<>> THEN <<>>
  ELSE InsertByActivity(SortByActivity(SubSeq(list, 1, Len(list) - 1)),
                        list[Len(list)])

\* handleNewMessage of the ChatApp (ChatSidebar.js lines 266-285): the entry
\* of the message's chat takes the message's createdAt as lastActivity, and
\* the list is sorted.
chatListNewMessage(prev, message) ==
  SortByActivity([k \in 1..Len(prev) |->
                    IF prev[k].id = message.chat
                    THEN [prev[k] EXCEPT !.lastActivity = message.createdAt]
                    ELSE prev[k]])

\* A newMessage frame reaches the client's listeners: the ChatApp's, and the
\* ChatWindow's, which is attached once the window is on screen.
newMessageReceived(c) ==
  /\ seen[c] < Len(inbox[c])
  /\ inbox[c][seen[c] + 1].ev = "newMessage"
  /\ seen' = [seen EXCEPT ![c] = @ + 1]
  /\ windowMessages' = IF c = WindowConn /\ load.at # "none"
                       THEN windowNewMessage(windowMessages, inbox[c][seen[c] + 1])
                       ELSE windowMessages
  /\ chatList' = IF c = WindowConn
                 THEN chatListNewMessage(chatList, inbox[c][seen[c] + 1])
                 ELSE chatList
  /\ UNCHANGED <<clock, dbVars, connVars, rooms, inbox, taskVars, typings,
                 typingUsers, timers, asked, onlineUsers, windowVars, load,
                 chatsLoad, createdShown, authVars>>

LoadNext ==
  \/ loadMessages
  \/ \E ok \in DbOutcomes : getMessagesFoundChat(ok)
  \/ \E ok \in DbOutcomes : getMessagesFound(ok)
  \/ messagesLoaded

\* Messages sent while a ChatWindow loads and shows its chat.
SpecHistory ==
  InitActive /\ [][SendNext \/ LoadNext \/ \E c \in Conns : newMessageReceived(c)]_vars

\* Messages sent to clients that take their frames at their own pace.
SpecSendSlow ==
  InitActive /\ [][SendNext \/ \E c \in Conns : otherFrame(c) \/ newMessageReceived(c)]_vars

\* ------------------------------------------------------ ChatApp: chats
\* A chat as the chat list holds it.
ChatEntry(id, lastActivity) == [id |-> id, lastActivity |-> lastActivity]

\* The stored chats of user u with ids up to n, in the order of their ids.
RECURSIVE ChatsOfUser(_, _)
ChatsOfUser(n, u) ==
  IF n = 0 THEN <<>>
  ELSE IF n \in DOMAIN chats /\ u \in chats[n].participants
       THEN Append(ChatsOfUser(n - 1, u), ChatEntry(n, chats[n].lastActivity))
       ELSE ChatsOfUser(n - 1, u)

\* Chat.find({ participants }).sort({ lastActivity: -1 }) (part_004 lines
\* 15-28).
ChatFindSorted(u) == SortByActivity(ChatsOfUser(Max(DOMAIN chats), u))

\* The effect of the ChatApp as it mounts (ChatSidebar.js lines 237-240,
\* 252-255): loadChats sends GET /api/chats and awaits it.
loadChats ==
  /\ chatsLoad.at = "none"
  /\ chatsLoad' = [chatsLoad EXCEPT !.at = "find"]
  /\ UNCHANGED <<clock, dbVars, connVars, rooms, inbox, taskVars, typingVars,
                 asked, onlineUsers, windowVars, historyVars, chatList, createdShown,
                 authVars>>

\* Chat.find of the route resolves and the list is sent (part_004 lines
\* 13-36).
getChatsFound(ok) ==
  /\ chatsLoad.at = "find"
  /\ chatsLoad' = IF ~ok THEN [chatsLoad EXCEPT !.at = "response", !.status = 500]
                  ELSE [at |-> "response", status |-> 200,
                        data |-> ChatFindSorted(sock[WindowConn].userId)]
  /\ UNCHANGED <<clock, dbVars, connVars, rooms, inbox, taskVars, typingVars,
                 asked, onlineUsers, windowVars, historyVars, chatList, createdShown,
                 authVars>>

\* The response reaches loadChats (ChatSidebar.js lines 256-263).
chatsLoaded ==
  /\ chatsLoad.at = "response"
  /\ chatsLoad' = [chatsLoad EXCEPT !.at = "done"]
  /\ chatList' = IF chatsLoad.status = 200 THEN chatsLoad.data ELSE chatList
  /\ UNCHANGED <<clock, dbVars, connVars, rooms, inbox, taskVars, typingVars,
                 asked, onlineUsers, windowVars, historyVars, createdShown, authVars>>

\* The response of POST /api/chats reaches handleCreateChat of the modal
\* (lines 434-466): a chat, created or found, is handed to handleChatCreated
\* (lines 295-298), which puts it at the head of the list.
handleChatCreated(i) ==
  /\ i \in 1..Len(creates)
  /\ i \notin createdShown
  /\ creates[i].at = "done"
  /\ creates[i].caller = sock[WindowConn].userId
  /\ createdShown' = createdShown \cup {i}
  /\ chatList' = IF creates[i].status \in {200, 201}
                 THEN <<ChatEntry(creates[i].chat, creates[i].activity)>> \o chatList
                 ELSE chatList
  /\ UNCHANGED <<clock, dbVars, connVars, rooms, inbox, taskVars, typingVars,
                 asked, onlineUsers, windowVars, historyVars, chatsLoad, authVars>>

ListNext ==
  \/ loadChats
  \/ \E ok \in DbOutcomes : getChatsFound(ok)
  \/ chatsLoaded
  \/ \E i \in 1..MaxCreates : handleChatCreated(i)

\* The window's user starts a direct chat, with bob or with carol.
ListCreateNext ==
  \/ \E req \in CreateRequests :
       /\ Len(creates) < JoinCreates
       /\ req.caller = LoginOf(WindowConn)
       /\ ~req.isGroupChat
       /\ req.participants \in {{"bob"}, {"carol"}}
       /\ createChat(req)
  \/ \E i \in 1..MaxCreates, ok \in DbOutcomes : createFoundExisting(i, ok)
  \/ \E i \in 1..MaxCreates, ok \in DbOutcomes : createValidated(i, ok)
  \/ \E i \in 1..MaxCreates, ok \in DbOutcomes : createSaved(i, ok)
  \/ \E i \in 1..MaxCreates, ok \in DbOutcomes : createResponded(i, ok)

\* bob writes to alice: one message to their chat.
ListSendNext ==
  \/ /\ Len(sends) < ListSends
     /\ sendMessage(2, [chatId |-> 1, content |-> "hi", messageType |-> "text"])
  \/ \E i \in 1..MaxSends, ok \in DbOutcomes : sendFoundChat(i, ok)
  \/ \E i \in 1..MaxSends, ok \in DbOutcomes : sendSavedMessage(i, ok)
  \/ \E i \in 1..MaxSends, ok \in DbOutcomes : sendSavedChat(i, ok)
  \/ \E i \in 1..MaxSends, ok \in DbOutcomes : sendPopulated(i, ok)

\* The chat list of a client while chats are created and messages arrive.
SpecChatList ==
  InitActive /\ [][ListCreateNext \/ ListSendNext \/ ListNext \/ Tick
                     \/ newMessageReceived(WindowConn)]_vars

\* ---------------------------------------------------------- AuthProvider
\* The users that sign in on this browser, and the token the server issues
\* to each.
AuthUsers == {"alice", "bob"}
TokenOf(u) == IF u = "alice" THEN "token-alice" ELSE "token-bob"
UserOfToken(t) == IF t = "token-alice" THEN "alice" ELSE "bob"

\* The actions the AuthProvider dispatches.
AuthAction(type, payload) == [type |-> type, payload |-> payload]
NoPayload == [user |-> None, token |-> None, loading |-> FALSE]

\* A reducer whose AUTH_ERROR / LOGOUT case leaves the token in the state.
authReducerKeepsToken(state, action) ==
  IF action.type \in {"LOGIN_SUCCESS", "REGISTER_SUCCESS"}
  THEN [user |-> action.payload.user, token |-> action.payload.token,
        isAuthenticated |-> TRUE, loading |-> FALSE]
  ELSE IF action.type = "USER_LOADED"
  THEN [state EXCEPT !.user = action.payload.user, !.isAuthenticated = TRUE,
                     !.loading = FALSE]
  ELSE IF action.type \in {"AUTH_ERROR", "LOGOUT"}
  THEN [state EXCEPT !.user = None, !.isAuthenticated = FALSE, !.loading = FALSE]
  ELSE IF action.type = "SET_LOADING"
  THEN [state EXCEPT !.loading = action.payload.loading]
  ELSE state

\* authReducer (AuthContext.js lines 14-51): the state it returns.
authReducer(state, action) ==
  IF action.type \in {"LOGIN_SUCCESS", "REGISTER_SUCCESS"}
  THEN [user |-> action.payload.user, token |-> action.payload.token,
        isAuthenticated |-> TRUE, loading |-> FALSE]
  ELSE IF action.type = "USER_LOADED"
  THEN [state EXCEPT !.user = action.payload.user, !.isAuthenticated = TRUE,
                     !.loading = FALSE]
  ELSE IF action.type \in {"AUTH_ERROR", "LOGOUT"}
  THEN [user |-> None, token |-> None, isAuthenticated |-> FALSE, loading |-> FALSE]
  ELSE IF action.type = "SET_LOADING"
  THEN [state EXCEPT !.loading = action.payload.loading]
  ELSE state

\* authReducer: what its localStorage calls leave in the token item (lines
\* 18 and 35).
storedAfter(stored, action) ==
  IF action.type \in {"LOGIN_SUCCESS", "REGISTER_SUCCESS"} THEN action.payload.token
  ELSE IF action.type \in {"AUTH_ERROR", "LOGOUT"} THEN None
  ELSE stored

dispatch(action) ==
  /\ authState' = authReducer(authState, action)
  /\ localStorage' = storedAfter(localStorage, action)

\* An async function of the provider has been called and awaits axios.
Attempt(kind, u) == [kind |-> kind, at |-> "await", user |-> u, outcome |-> None]

\* The attempt has dispatched its last action.
Ended(i, type) == [attempts EXCEPT ![i].at = "done", ![i].outcome = type]

\* The provider's effects have run: its functions can be called.
Mounted ==
  \A i \in 1..Len(attempts) : attempts[i].kind = "mount" => attempts[i].at # "effect"

\* The mount effect (lines 65-72): loadUser is called if the state has a
\* token, up to its await (lines 74-76); otherwise loading is cleared.
mountEffect(i) ==
  /\ i \in 1..Len(attempts)
  /\ attempts[i] = MountEffect
  /\ IF authState.token # None
     THEN /\ attempts' = Append(Ended(i, "loadUser"),
                                Attempt("loadUser", UserOfToken(authState.token)))
          /\ UNCHANGED <<authState, localStorage>>
     ELSE /\ attempts' = Ended(i, "SET_LOADING")
          /\ dispatch(AuthAction("SET_LOADING", NoPayload))
  /\ UNCHANGED <<clock, dbVars, connVars, rooms, inbox, taskVars, typingVars,
                 asked, onlineUsers, windowVars, historyVars, listVars>>

\* GET /api/auth/me resolves or rejects (lines 76-81).
loadUserResolved(i, ok) ==
  /\ i \in 1..Len(attempts)
  /\ attempts[i].kind = "loadUser" /\ attempts[i].at = "await"
  /\ IF ok
     THEN /\ dispatch(AuthAction("USER_LOADED",
                                 [NoPayload EXCEPT !.user = attempts[i].user]))
          /\ attempts' = Ended(i, "USER_LOADED")
     ELSE /\ dispatch(AuthAction("AUTH_ERROR", NoPayload))
          /\ attempts' = Ended(i, "AUTH_ERROR")
  /\ UNCHANGED <<clock, dbVars, connVars, rooms, inbox, taskVars, typingVars,
                 asked, onlineUsers, windowVars, historyVars, listVars>>

\* register(userData) or login(credentials) up to its await (lines 84-87,
\* 108-111).
signIn(kind, u) ==
  /\ Mounted
  /\ Len(attempts) < MaxAttempts
  /\ dispatch(AuthAction("SET_LOADING", [NoPayload EXCEPT !.loading = TRUE]))
  /\ attempts' = Append(attempts, Attempt(kind, u))
  /\ UNCHANGED <<clock, dbVars, connVars, rooms, inbox, taskVars, typingVars,
                 asked, onlineUsers, windowVars, historyVars, listVars>>

register(u) == signIn("register", u)

login(u) == signIn("login", u)

\* The POST of register or login resolves or rejects (lines 89-104, 113-128).
signInResolved(i, ok) ==
  /\ i \in 1..Len(attempts)
  /\ attempts[i].kind \in {"register", "login"} /\ attempts[i].at = "await"
  /\ LET type == IF ~ok THEN "AUTH_ERROR"
                 ELSE IF attempts[i].kind = "login" THEN "LOGIN_SUCCESS"
                 ELSE "REGISTER_SUCCESS"
         payload == IF ok THEN [NoPayload EXCEPT !.user = attempts[i].user,
                                                 !.token = TokenOf(attempts[i].user)]
                    ELSE NoPayload
     IN /\ dispatch(AuthAction(type, payload))
        /\ attempts' = Ended(i, type)
  /\ UNCHANGED <<clock, dbVars, connVars, rooms, inbox, taskVars, typingVars,
                 asked, onlineUsers, windowVars, historyVars, listVars>>

\* logout() up to its await (lines 131-133).
logout ==
  /\ Mounted
  /\ Len(attempts) < MaxAttempts
  /\ attempts' = Append(attempts, Attempt("logout", None))
  /\ UNCHANGED <<clock, dbVars, connVars, rooms, inbox, taskVars, typingVars,
                 asked, onlineUsers, windowVars, historyVars, listVars,
                 authState, localStorage>>

\* The POST of logout resolves or rejects: LOGOUT is dispatched either way
\* (lines 134-139).
logoutResolved(i) ==
  /\ i \in 1..Len(attempts)
  /\ attempts[i].kind = "logout" /\ attempts[i].at = "await"
  /\ dispatch(AuthAction("LOGOUT", NoPayload))
  /\ attempts' = Ended(i, "LOGOUT")
  /\ UNCHANGED <<clock, dbVars, connVars, rooms, inbox, taskVars, typingVars,
                 asked, onlineUsers, windowVars, historyVars, listVars>>

\* The page is loaded again: the provider mounts with initialState, and what
\* the old page awaited is never handled.
reload ==
  /\ Len(attempts) < MaxAttempts
  /\ authState' = initialState(localStorage)
  /\ attempts' = Append([i \in 1..Len(attempts) |->
                           IF attempts[i].at = "done" THEN attempts[i]
                           ELSE [attempts[i] EXCEPT !.at = "gone"]],
                        MountEffect)
  /\ UNCHANGED <<clock, dbVars, connVars, rooms, inbox, taskVars, typingVars,
                 asked, onlineUsers, windowVars, historyVars, listVars, localStorage>>

AuthNext ==
  \/ \E i \in 1..MaxAttempts + 1 : mountEffect(i)
  \/ \E i \in 1..MaxAttempts + 1, ok \in BOOLEAN : loadUserResolved(i, ok)
  \/ \E u \in AuthUsers : register(u)
  \/ \E u \in AuthUsers : login(u)
  \/ \E i \in 1..MaxAttempts + 1, ok \in BOOLEAN : signInResolved(i, ok)
  \/ logout
  \/ \E i \in 1..MaxAttempts + 1 : logoutResolved(i)
  \/ reload

\* A browser signing in and out.
SpecAuth == Init /\ [][AuthNext]_vars

\* ----------------------------------------------------- malformed payloads
\* A frame whose payload is undefined.
UndefinedData == [undefined |-> TRUE]

\* An in-flight handler of a process that has ended never resumes.
Killed(tasks) ==
  [i \in 1..Len(tasks) |->
     IF tasks[i].at \in {"done", "failed", "rejected", "responded"} THEN tasks[i]
     ELSE [tasks[i] EXCEPT !.at = "killed"]]

\* An exception no handler catches ends the node process: every transport
\* closes, the adapter's rooms and the activeUsers Map are gone with the
\* process, no handler runs on; the database keeps what was written.
uncaughtException ==
  /\ sock' = [c \in Conns |->
                IF sock[c].state \in {"handshake", "connected"}
                THEN [sock[c] EXCEPT !.state = "closed", !.listeners = FALSE]
                ELSE sock[c]]
  /\ rooms' = [c \in Conns |-> {}]
  /\ activeUsers' = [u \in Users |-> 0]
  /\ edges' = [u \in Users |->
                 IF LiveCount(u) >= 1
                 THEN [edges[u] EXCEPT !.down = @ + 1, !.downAt = clock]
                 ELSE edges[u]]
  /\ hpc' = [c \in Conns |->
               IF hpc[c].at \in {"update", "chats"}
               THEN [hpc[c] EXCEPT !.at = "killed"] ELSE hpc[c]]
  /\ dpc' = [c \in Conns |->
               IF dpc[c].at = "update" THEN [dpc[c] EXCEPT !.at = "killed"] ELSE dpc[c]]
  /\ sends' = Killed(sends)
  /\ reads' = Killed(reads)
  /\ creates' = Killed(creates)

\* sendMessage with an undefined payload: the destructuring of line 77
\* throws inside the try block, the catch block answers with an error frame.
sendMessageMalformed(c) ==
  /\ Active(c)
  /\ Len(sends) < MaxSends
  /\ sends' = Append(sends, [conn |-> c, user |-> sock[c].userId, data |-> UndefinedData,
                             at |-> "failed", message |-> 0, lastActivity |-> 0,
                             builtAt |-> 0, errors |-> 1])
  /\ inbox' = Deliver(SelfTarget(c), ErrorFrame("Failed to send message"))
  /\ UNCHANGED <<clientVars, clock, dbVars, connVars, rooms, reads, creates>>

\* markAsRead with an undefined payload: the destructuring of line 141
\* throws inside the try block, the catch block logs.
markAsReadMalformed(c) ==
  /\ Active(c)
  /\ Len(reads) < MaxReads
  /\ reads' = Append(reads, [conn |-> c, user |-> sock[c].userId, data |-> UndefinedData,
                             readAt |-> clock, at |-> "failed"])
  /\ UNCHANGED <<clientVars, clock, dbVars, connVars, rooms, inbox, sends, creates>>

\* typing with an undefined payload: the destructuring of line 130 throws
\* in a listener that has no try block.
typingMalformed(c) ==
  /\ Active(c)
  /\ Len(typings) < MaxTypings
  /\ typings' = Append(typings, [conn |-> c, user |-> sock[c].userId,
                                 data |-> UndefinedData])
  /\ uncaughtException
  /\ UNCHANGED <<clock, dbVars, emitted, inbox, typingUsers, timers, seen, asked, onlineUsers, uiVars>>

\* joinChat / leaveChat with an undefined chat id name the room undefined.
MalformedNext ==
  \/ \E c \in Conns : joinChat(c, Undefined)
  \/ \E c \in Conns : leaveChat(c, Undefined)
  \/ \E c \in Conns : sendMessageMalformed(c)
  \/ \E c \in Conns : markAsReadMalformed(c)
  \/ \E c \in Conns : typingMalformed(c)

\* Connected clients sending frames without a payload.
SpecMalformed == InitActive /\ [][MalformedNext]_vars

\* ------------------------------------------------ a stored message at start
\* The state Init reaches when alice has posted "hi" to chat 1 over the
\* REST route, before any socket opens.
InitStored ==
  /\ clock = 0
  /\ users = [u \in Users |-> [isOnline |-> FALSE, lastSeen |-> 0]]
  /\ chats = [InitialChats EXCEPT ![1].lastMessage = 1]
  /\ messages = <<FirstMessage>>
  /\ nextMsgId = 1
  /\ activeUsers = [u \in Users |-> 0]
  /\ sock = [c \in Conns |-> [state |-> "idle", token |-> NoToken,
                              userId |-> None, listeners |-> FALSE]]
  /\ hpc = [c \in Conns |-> [at |-> "none", now |-> 0, atConnect |-> {}]]
  /\ dpc = [c \in Conns |-> [at |-> "none", now |-> 0]]
  /\ rooms = [c \in Conns |-> {}]
  /\ inbox = [c \in Conns |-> <<>>]
  /\ emitted = [u \in Users |-> [online |-> 0, offline |-> 0]]
  /\ edges = [u \in Users |-> [up |-> 0, down |-> 0, downAt |-> 0]]
  /\ sends = <<[conn |-> 0, user |-> "alice",
                data |-> [chatId |-> 1, content |-> "hi", messageType |-> "text"],
                at |-> "responded", message |-> 1, lastActivity |-> 0,
                builtAt |-> 0, errors |-> 0, status |-> 201]>>
  /\ reads = <<>>
  /\ creates = <<>>
  /\ typings = <<>>
  /\ typingUsers = [c \in Conns |-> NoTypingUsers]
  /\ timers = [c \in Conns |-> <<>>]
  /\ seen = [c \in Conns |-> 0]
  /\ asked = [c \in Conns |-> "none"]
  /\ onlineUsers = [c \in Conns |-> {}]
  /\ UiInit

\* The token of the user socket c logs in as.
LoginToken(c) == [present |-> TRUE, signed |-> TRUE, userId |-> LoginOf(c)]

\* Every relay operation that is no send: sockets connecting, closing,
\* opening and closing a chat view, typing and marking messages read.
RelayNext ==
  \/ \E c \in Conns : socketAuth(c, LoginToken(c))
  \/ \E c \in Conns : socketAuthResolved(c)
  \/ \E c \in Conns : connectionUpdated(c)
  \/ \E c \in Conns : connectionJoined(c)
  \/ \E c \in Conns : transportClose(c)
  \/ \E c \in Conns : disconnectUpdated(c)
  \/ \E c \in Conns : joinChat(c, 3)
  \/ \E c \in Conns : leaveChat(c, 3)
  \/ typing(1, [chatId |-> 1, isTyping |-> TRUE])
  \/ \E c \in Conns, data \in {d \in ReadData : d.chatId = 1} : markAsRead(c, data)
  \/ \E i \in 1..MaxReads, ok \in DbOutcomes : readUpdated(i, ok)

SpecRelay == InitStored /\ [][RelayNext]_vars

RoomNext ==
  \/ \E c \in Conns, chatId \in ChatIds : joinChat(c, chatId)
  \/ \E c \in Conns, chatId \in ChatIds : leaveChat(c, chatId)

\* Connections opening and closing while chats are created.
JoinCreate == CreateNext /\ Len(creates') <= JoinCreates

SpecJoin == Init /\ [][ConnNext \/ JoinCreate]_vars

\* Chats created over the REST route, requests overlapping.
SpecCreate == Init /\ [][CreateNext]_vars

\* Connected clients opening and closing chat views and sending messages.
SpecRooms == InitActive /\ [][RoomNext \/ SendNext]_vars

Next ==
  \/ ConnNext \/ RoomNext \/ SendNext \/ ReadNext \/ CreateNext \/ Tick
  \/ TypingNext \/ ClientNext \/ SnapshotNext \/ \E c \in Conns : otherFrame(c)
  \/ MalformedNext \/ PostNext \/ PresenceNext
  \/ WindowTypingNext \/ LoadNext \/ \E c \in Conns : newMessageReceived(c)
  \/ ListNext \/ AuthNext

Spec == Init /\ [][Next]_vars

\* ============================================================== the claims

\* No 'connection' or 'disconnect' handler is between two of its awaits and
\* no handshake is pending.
Quiescent ==
  \A c \in Conns :
    /\ hpc[c].at \in {"none", "done"}
    /\ dpc[c].at \in {"none", "done"}
    /\ sock[c].state # "handshake"

\* Some socket closed before its 'connection' handler had attached the
\* 'disconnect' listener, so that its close went unhandled.
ClosedUnheard ==
  \E c \in Conns :
    sock[c].state = "closed" /\ hpc[c].at # "none" /\ dpc[c].at = "none"

\* C1: userOnline is broadcast for an identity only when its number of live
\* connections goes from 0 to 1 and userOffline only when it goes from 1 to
\* 0, so there are never more userOnline broadcasts than 0->1 changes nor
\* more userOffline broadcasts than 1->0 changes; and when every handler has
\* finished and the identity has no connection left, it has had as many
\* userOnline as userOffline broadcasts.  Stated for the runs in which every
\* close was heard by the 'disconnect' listener.
C1_EdgeTriggeredPresence ==
  ~ClosedUnheard =>
    \A u \in Users :
      /\ emitted[u].online <= edges[u].up
      /\ emitted[u].offline <= edges[u].down
      /\ (Quiescent /\ LiveCount(u) = 0) => emitted[u].online = emitted[u].offline

\* C2: whenever the connect and disconnect handlers have finished, an
\* identity is online (in activeUsers, in the onlineUsers snapshot, stored
\* with isOnline = true) if and only if it has a live connection.  Stated
\* for the runs in which every close was heard by the 'disconnect' listener.
C2_OnlineIffLiveConnection ==
  (Quiescent /\ ~ClosedUnheard) =>
    \A u \in Users :
      IF LiveCount(u) >= 1
      THEN activeUsers[u] # 0 /\ u \in onlineUsersList /\ users[u].isOnline
      ELSE activeUsers[u] = 0 /\ u \notin onlineUsersList /\ ~users[u].isOnline

\* The sender of send i is no participant of the chat it names, or the chat
\* does not exist.
Outsider(i) ==
  \/ sends[i].data.chatId \notin DOMAIN chats
  \/ sends[i].user \notin chats[sends[i].data.chatId].participants

HasErrorFrame(c) == \E k \in 1..Len(inbox[c]) : inbox[c][k].ev = "error"

\* What an outsider's send leaves behind in any state: it never gets past
\* the chat lookup, constructs no Message, and once it has ended the sender
\* holds an error frame; no stored message, no lastMessage and no
\* newMessage frame comes from a sender outside the chat.
C3_OutsiderState ==
  /\ \A i \in 1..Len(sends) :
       Outsider(i) =>
         /\ sends[i].at \in {"findChat", "rejected", "failed"}
         /\ sends[i].message = 0
         /\ sends[i].at # "findChat" => (sends[i].errors = 1 /\ HasErrorFrame(sends[i].conn))
  /\ \A k \in 1..Len(messages) :
       /\ messages[k].chat \in DOMAIN chats
       /\ messages[k].sender \in chats[messages[k].chat].participants
  /\ \A ch \in DOMAIN chats :
       chats[ch].lastMessage # 0 =>
         \E k \in 1..Len(messages) :
           messages[k].id = chats[ch].lastMessage /\ messages[k].chat = ch
  /\ \A c \in Conns : \A k \in 1..Len(inbox[c]) :
       inbox[c][k].ev = "newMessage" =>
         inbox[c][k].sender \in chats[inbox[c][k].chat].participants

\* What a step of an outsider's send changes: nothing in the Message and
\* Chat collections, and no inbox but by one error frame for the sender.
C3_OutsiderStep ==
  \A i \in 1..Len(sends) :
    (Outsider(i) /\ sends'[i] # sends[i]) =>
      /\ messages' = messages
      /\ chats' = chats
      /\ nextMsgId' = nextMsgId
      /\ \A c \in Conns :
           IF c = sends[i].conn
           THEN inbox'[c] = Append(inbox[c], inbox'[c][Len(inbox'[c])])
                /\ inbox'[c][Len(inbox'[c])].ev = "error"
           ELSE inbox'[c] = inbox[c]

\* C3: a sendMessage whose sender is no participant of the target chat (or
\* whose chat does not exist) ends with an error frame to the sender, stores
\* no Message, leaves lastMessage and lastActivity as they are and
\* broadcasts no newMessage.
C3_OutsiderSendRejected == []C3_OutsiderState /\ [][C3_OutsiderStep]_vars

\* An outsider's send was rejected with its error frame delivered, while a
\* participant's send went through to its broadcast.
C3_Witness ==
  \E i, j \in 1..Len(sends) :
    /\ Outsider(i) /\ sends[i].at = "rejected" /\ HasErrorFrame(sends[i].conn)
    /\ ~Outsider(j) /\ sends[j].at = "done"

\* The place of message id in the order the saves completed (0: not stored).
PersistIndex(id) ==
  IF \E k \in 1..Len(messages) : messages[k].id = id
  THEN CHOOSE k \in 1..Len(messages) : messages[k].id = id
  ELSE 0

\* C4: two messages of one chat reach every subscriber that gets both in
\* the order in which their message.save completed.
C4_BroadcastInPersistOrder ==
  \A c \in Conns : \A k1, k2 \in 1..Len(inbox[c]) :
    (/\ k1 < k2
     /\ inbox[c][k1].ev = "newMessage"
     /\ inbox[c][k2].ev = "newMessage"
     /\ inbox[c][k1].chat = inbox[c][k2].chat)
    => PersistIndex(inbox[c][k1].message) < PersistIndex(inbox[c][k2].message)

\* The stored messages of chat ch, as places in the order of their saves.
StoredIn(ch) == {k \in 1..Len(messages) : messages[k].chat = ch}

AllSendsDone == \A i \in 1..Len(sends) : sends[i].at \in {"done", "rejected"}

\* C5: concurrent sends update a chat as if they were serialized:
\* lastActivity never decreases, and when every send has completed
\* lastMessage is the message whose save completed last.
C5_MetadataSerialized ==
  /\ [][\A ch \in DOMAIN chats : chats'[ch].lastActivity >= chats[ch].lastActivity]_vars
  /\ [](AllSendsDone =>
          \A ch \in DOMAIN chats :
            StoredIn(ch) # {} => chats[ch].lastMessage = messages[Max(StoredIn(ch))].id)

\* C6: markAsRead is idempotent on the stored state: the readBy of every
\* message holds at most one entry per user.
C6_ReadByUniquePerUser ==
  \A k \in 1..Len(messages) : \A u \in Users :
    Cardinality({j \in 1..Len(messages[k].readBy) : messages[k].readBy[j].user = u}) <= 1

\* C7: for each message and user, a subscriber connection gets at most one
\* messageRead frame: marking again produces no second event.
C7_OneReadEventPerUser ==
  \A c \in Conns : \A m \in {1, 9}, u \in Users :
    Cardinality({k \in 1..Len(inbox[c]) :
                   /\ inbox[c][k].ev = "messageRead"
                   /\ inbox[c][k].messageId = m
                   /\ inbox[c][k].userId = u}) <= 1

\* C8: every newMessage broadcast of a chat reaches every active connection
\* whose identity is a participant of that chat, whatever joinChat and
\* leaveChat frames the connection has sent.
C8_ParticipantsAlwaysReceive ==
  [][\A i \in 1..Len(sends) :
       (sends[i].at = "populate" /\ sends'[i].at = "done") =>
         \A c \in Conns :
           (Active(c) /\ sock[c].userId \in chats[sends[i].data.chatId].participants) =>
             /\ Len(inbox'[c]) = Len(inbox[c]) + 1
             /\ inbox'[c][Len(inbox'[c])].ev = "newMessage"
             /\ inbox'[c][Len(inbox'[c])].message = sends[i].message]_vars

HandlerDone(c) == Connected(c) /\ hpc[c].at = "done"

\* C9 as stated: when the connection handler has completed, the connection
\* is in the room of exactly the chats its identity was a participant of at
\* connect time.
C9_RoomsExactlyAtConnect ==
  \A c \in Conns : HandlerDone(c) => rooms[c] = hpc[c].atConnect

\* C9, amended: when the connection handler has completed, the connection
\* is in the room of every chat its identity was a participant of at
\* connect time, and in no room but those of chats its identity is a
\* participant of (a chat created between the connect and the handler's
\* chat lookup is joined too).
C9_RoomsOfOwnChats ==
  \A c \in Conns :
    HandlerDone(c) =>
      /\ hpc[c].atConnect \subseteq rooms[c]
      /\ \A ch \in rooms[c] :
           ch \in DOMAIN chats /\ sock[c].userId \in chats[ch].participants

\* A completed handler has joined the chats of connect time and one more.
C9_Witness ==
  \E c \in Conns :
    /\ HandlerDone(c)
    /\ hpc[c].atConnect # {}
    /\ rooms[c] \ hpc[c].atConnect # {}

\* The token is missing, does not verify, or names no user.
BadToken(tok) == ~tok.present \/ ~tok.signed \/ tok.userId \notin Users

TasksOf(c) ==
  {i \in 1..Len(sends) : sends[i].conn = c} \cup {i \in 1..Len(reads) : reads[i].conn = c}

\* C10: a connection whose token is missing, fails verification or
\* resolves to no user is refused: it never becomes connected, never enters
\* activeUsers, joins no room, has no handler run, and causes no userOnline
\* broadcast and no isOnline update.
C10_BadTokenRefused ==
  /\ \A c \in Conns :
       (sock[c].state # "idle" /\ BadToken(sock[c].token)) =>
         /\ sock[c].state \in {"handshake", "refused", "closed"}
         /\ (~sock[c].token.present \/ ~sock[c].token.signed) => sock[c].state = "refused"
         /\ sock[c].userId = None
         /\ ~sock[c].listeners
         /\ hpc[c].at = "none"
         /\ dpc[c].at = "none"
         /\ rooms[c] = {}
         /\ TasksOf(c) = {}
         /\ \A u \in Users : activeUsers[u] # c
  /\ \A u \in Users :
       LET good == {c \in Conns : ~BadToken(sock[c].token) /\ sock[c].userId = u}
       IN /\ emitted[u].online <= Cardinality(good)
          /\ users[u].isOnline => good # {}
          /\ activeUsers[u] # 0 => activeUsers[u] \in good

\* Every kind of bad token has been refused while no user was put online.
C10_Witness ==
  /\ \E c \in Conns : sock[c].state = "refused" /\ sock[c].token.signed
  /\ \E c \in Conns : sock[c].state = "refused" /\ ~sock[c].token.signed
  /\ \A u \in Users : ~users[u].isOnline /\ activeUsers[u] = 0

\* Positions of inbox[c] that hold the newMessage frame of message id.
NewMessageAt(c, id) ==
  {k \in 1..Len(inbox[c]) : inbox[c][k].ev = "newMessage" /\ inbox[c][k].message = id}

C11_AtMostOnce ==
  \A c \in Conns, id \in 1..nextMsgId : Cardinality(NewMessageAt(c, id)) <= 1

C11_BroadcastStep ==
  \A i \in 1..Len(sends) :
    (sends[i].at = "populate" /\ sends'[i].at = "done") =>
      \A c \in Conns :
        IF Connected(c) /\ sends[i].data.chatId \in rooms[c]
        THEN /\ Len(inbox'[c]) = Len(inbox[c]) + 1
             /\ SubSeq(inbox'[c], 1, Len(inbox[c])) = inbox[c]
             /\ LET f == inbox'[c][Len(inbox'[c])] IN
                  /\ f.ev = "newMessage"
                  /\ f.message = sends[i].message
                  /\ f.chat = sends[i].data.chatId
                  /\ f.sender = sends[i].user
                  /\ f.content = sends[i].data.content
        ELSE inbox'[c] = inbox[c]

\* C11: the broadcast of a successful sendMessage to chat C appends exactly
\* one newMessage frame, with the sender and the content sent, to the inbox
\* of every connected socket in room C (the sending socket and the sender's
\* other sockets included) and to no other inbox; no socket holds the frame
\* of one message twice.
C11_ExactlyTheRoom == []C11_AtMostOnce /\ [][C11_BroadcastStep]_vars

\* A send is done and both the sending socket and another socket of the
\* sender hold its frame.
C11_Witness ==
  \E i \in 1..Len(sends) :
    /\ sends[i].at = "done"
    /\ NewMessageAt(sends[i].conn, sends[i].message) # {}
    /\ \E c \in Conns \ {sends[i].conn} :
         /\ sock[c].userId = sends[i].user
         /\ NewMessageAt(c, sends[i].message) # {}

\* The send whose message.save was rejected: a Message was constructed and
\* never stored.
SaveFailed(i) ==
  sends[i].at = "failed" /\ sends[i].message # 0 /\ PersistIndex(sends[i].message) = 0

C12_PersistedFirst ==
  /\ \A c \in Conns : \A k \in 1..Len(inbox[c]) :
       inbox[c][k].ev = "newMessage" => PersistIndex(inbox[c][k].message) # 0
  /\ \A i \in 1..Len(sends) :
       SaveFailed(i) =>
         /\ sends[i].errors = 1
         /\ \A c \in Conns : NewMessageAt(c, sends[i].message) = {}

C12_SaveRejectedStep ==
  \A i \in 1..Len(sends) :
    (sends[i].at = "saveMessage" /\ sends'[i].at = "failed") =>
      /\ messages' = messages
      /\ chats' = chats
      /\ \A c \in Conns :
           inbox'[c] = IF c = sends[i].conn
                       THEN Append(inbox[c], ErrorFrame("Failed to send message"))
                       ELSE inbox[c]

\* C12: every newMessage frame in any inbox is the frame of a message that
\* is already stored; a send whose message.save is rejected ends with
\* exactly one error frame, appended to the sending socket's inbox alone,
\* stores nothing and has no newMessage frame anywhere.
C12_WriteBeforeBroadcast == []C12_PersistedFirst /\ [][C12_SaveRejectedStep]_vars

\* A send's message.save was rejected and the sender holds the error
\* frame, while another send was stored and broadcast.
C12_Witness ==
  /\ \E i \in 1..Len(sends) : SaveFailed(i) /\ HasErrorFrame(sends[i].conn)
  /\ \E i \in 1..Len(sends) :
       sends[i].at = "done" /\ NewMessageAt(sends[i].conn, sends[i].message) # {}

\* Positions of inbox[c] holding userTyping frames of user u that the
\* client's listener has handled.
HandledTyping(c, u) ==
  {k \in 1..seen[c] : inbox[c][k].ev = "userTyping" /\ inbox[c][k].userId = u}

\* The client shows u as typing under some key.
ShownTyping(c, u) == \E key \in TypingKeys : typingUsers[c][key][u] # NullEntry

\* The last userTyping frame of u that client c handled is negative and
\* follows a positive one.
ClearedAfterTyping(c, u) ==
  /\ HandledTyping(c, u) # {}
  /\ ~inbox[c][Max(HandledTyping(c, u))].isTyping
  /\ \E k \in HandledTyping(c, u) : inbox[c][k].isTyping

\* C13: once a client has handled typing=false of user u after typing=true
\* (and no later typing=true of u), it shows u as typing under no
\* conversation, whether the timeouts of the earlier frames are pending or
\* have fired: no stale true survives.
C13_FalseWins ==
  \A c \in Conns, u \in Users : ClearedAfterTyping(c, u) => ~ShownTyping(c, u)

\* A client handled true and then false of a user, and the timeout set by
\* the true frame has fired since.
C13_Witness ==
  \E c \in Conns, u \in Users :
    /\ ClearedAfterTyping(c, u)
    /\ seen[c] = Len(inbox[c])
    /\ timers[c] = <<>>

\* Positions of inbox[c] holding userTyping frames of user u.
TypingAt(c, u) ==
  {k \in 1..Len(inbox[c]) : inbox[c][k].ev = "userTyping" /\ inbox[c][k].userId = u}

\* The timeout set by the frame at position k of client c is still pending.
TimerPending(c, k) == \E n \in 1..Len(timers[c]) : timers[c][n].frame = k

\* C14: a typing=true that no further frame follows is answered, once its
\* expiry window has elapsed, by a negative userTyping broadcast to the
\* room, and a typing=false that finds the state already cleared is not
\* broadcast: for a subscriber, no negative userTyping frame of a user
\* directly follows another negative one, and a positive frame whose
\* window has elapsed is not the user's last frame.
C14_OneNegativePerExpiry ==
  \A c \in Conns, u \in Users :
    /\ \A k \in TypingAt(c, u) : \A j \in TypingAt(c, u) :
         (j < k /\ ~inbox[c][j].isTyping /\ ~inbox[c][k].isTyping) =>
           \E m \in TypingAt(c, u) : j < m /\ m < k
    /\ (seen[c] = Len(inbox[c]) /\ TypingAt(c, u) # {}
        /\ inbox[c][Max(TypingAt(c, u))].isTyping)
         => TimerPending(c, Max(TypingAt(c, u)))

\* C15: while the expiry window of the most recent typing=true of user u
\* is still running at a client and no typing=false has followed, the
\* client shows u as typing; the timeout of an earlier typing=true does
\* not clear the state a later frame set.
C15_LatestTrueRestartsWindow ==
  \A c \in Conns, u \in Users :
    (/\ HandledTyping(c, u) # {}
     /\ inbox[c][Max(HandledTyping(c, u))].isTyping
     /\ TimerPending(c, Max(HandledTyping(c, u))))
      => typingUsers[c][FrameChatId(inbox[c][Max(HandledTyping(c, u))])][u] # NullEntry

\* C16: a userTyping or messageRead frame caused by user U is in the inbox
\* of no socket authenticated as U, U's other sockets in the room included.
C16_NoEchoToOwnIdentity ==
  \A c \in Conns : \A k \in 1..Len(inbox[c]) :
    inbox[c][k].ev \in {"userTyping", "messageRead"} => inbox[c][k].userId # sock[c].userId

C17_TypingStep ==
  (Len(typings') = Len(typings) + 1
   /\ typings'[Len(typings')].data.chatId \notin rooms[typings'[Len(typings')].conn])
    => inbox' = inbox

\* C17: the handling of a typing frame for chat C that comes from a socket
\* which is not in room C appends no frame to any inbox.
C17_NonMemberTypingIgnored == [][C17_TypingStep]_vars

\* The users client c shows as typing in chat chatId.
TypingView(c, chatId) == {e.userId : e \in getChatTypingUsers(c, chatId)}

\* C18: a userTyping frame carries the chat id of the typing frame that
\* caused it, so while a client shows user u as typing after handling u's
\* typing=true for chat C, u is in its typing view of C and in its typing
\* view of no other chat.
C18_TypingFiledUnderItsChat ==
  \A c \in Conns, u \in Users :
    (/\ HandledTyping(c, u) # {}
     /\ inbox[c][Max(HandledTyping(c, u))].isTyping
     /\ ShownTyping(c, u))
      => LET chatId == typings[inbox[c][Max(HandledTyping(c, u))].cause].data.chatId IN
           /\ u \in TypingView(c, chatId)
           /\ \A other \in ChatIds \ {chatId} : u \notin TypingView(c, other)

\* The markAsRead names a message that is not stored, or one of another
\* chat than the frame's chatId.
Mismatched(r) ==
  \/ PersistIndex(r.data.messageId) = 0
  \/ messages[PersistIndex(r.data.messageId)].chat # r.data.chatId

C19_ReadStep ==
  \A i \in 1..Len(reads) :
    (reads[i].at = "update" /\ reads'[i].at # "update" /\ Mismatched(reads[i]))
      => messages' = messages /\ inbox' = inbox

\* C19: the handling of a markAsRead whose messageId is not stored, or
\* whose message is not of the chat named in the frame, changes no readBy
\* and appends no frame (messageRead or error) to any inbox.
C19_MismatchedReadIgnored == [][C19_ReadStep]_vars

C20_ReadStep ==
  \A i \in 1..Len(reads) :
    (/\ reads[i].at = "update" /\ reads'[i].at # "update"
     /\ PersistIndex(reads[i].data.messageId) # 0
     /\ reads[i].user \notin
          chats[messages[PersistIndex(reads[i].data.messageId)].chat].participants)
      => /\ messages' = messages
         /\ \A c \in Conns : \A k \in 1..Len(inbox'[c]) :
              k > Len(inbox[c]) => inbox'[c][k].ev # "messageRead"

\* C20: the handling of a markAsRead from a user who is no participant of
\* the message's chat changes no readBy and appends no messageRead frame
\* to any inbox.
C20_OutsiderReadIgnored == [][C20_ReadStep]_vars

C21_Unregistered ==
  Quiescent =>
    \A u \in Users :
      LiveCount(u) = 0 => activeUsers[u] = 0 /\ u \notin onlineUsersList /\ ~users[u].isOnline

C21_NoOnlineAfterClose ==
  \A c \in Conns :
    (sock[c].state = "closed" /\ hpc[c].at = "chats" /\ hpc'[c].at = "done")
      => emitted' = emitted /\ inbox' = inbox

\* C21: whatever the interleaving of the transport close with the
\* 'connection' handler, once every handler has finished an identity with
\* no live connection is neither in activeUsers nor stored as online, and
\* the 'connection' handler of a socket that has already closed broadcasts
\* no userOnline.
C21_CloseAlwaysUnregisters == []C21_Unregistered /\ [][C21_NoOnlineAfterClose]_vars

\* userOffline frames for user u in the inbox of socket c.
OfflineFrames(c, u) ==
  {k \in 1..Len(inbox[c]) : inbox[c][k].ev = "userOffline" /\ inbox[c][k].userId = u}

\* C22: once every handler has finished, an identity whose last live
\* connection has closed has had one userOffline broadcast for each time
\* its last connection closed, no socket holds more userOffline frames for
\* it than that, and its stored lastSeen is the time of the latest such
\* close.
C22_OfflineOnceWithLastSeen ==
  Quiescent =>
    \A u \in Users :
      (LiveCount(u) = 0 /\ edges[u].down > 0) =>
        /\ emitted[u].offline = edges[u].down
        /\ \A c \in Conns : Cardinality(OfflineFrames(c, u)) <= edges[u].down
        /\ users[u].lastSeen = edges[u].downAt

HasSnapshot(c) == \E k \in 1..Len(inbox[c]) : inbox[c][k].ev = "onlineUsers"

\* C23: every socket that has connected eventually holds an onlineUsers
\* frame (or has closed), whenever its getOnlineUsers request arrives
\* relative to the 'connection' handler attaching the listener.
C23_SnapshotEventually ==
  \A c \in Conns : Connected(c) ~> (HasSnapshot(c) \/ ~Connected(c))

\* The payload has an empty content, a content longer than the maximum, or
\* a type that is none of text, image and file.
IllFormed(data) ==
  \/ data.content = ""
  \/ ContentLength(data.content) > 1000
  \/ data.messageType \notin {"text", "image", "file"}

C24_IllFormedState ==
  \A i \in 1..Len(sends) :
    IllFormed(sends[i].data) =>
      /\ sends[i].at \in {"findChat", "saveMessage", "failed", "rejected"}
      /\ sends[i].at \in {"failed", "rejected"} =>
           sends[i].errors = 1 /\ HasErrorFrame(sends[i].conn)
      /\ sends[i].message # 0 =>
           /\ PersistIndex(sends[i].message) = 0
           /\ \A ch \in DOMAIN chats : chats[ch].lastMessage # sends[i].message
           /\ \A c \in Conns : NewMessageAt(c, sends[i].message) = {}

C24_IllFormedStep ==
  \A i \in 1..Len(sends) :
    (IllFormed(sends[i].data) /\ sends'[i] # sends[i]) =>
      /\ messages' = messages
      /\ chats' = chats
      /\ \A c \in Conns : c # sends[i].conn => inbox'[c] = inbox[c]

\* C24: a sendMessage whose content is empty or longer than 1000, or whose
\* type is not text, image or file, never stores a Message, never changes
\* a chat document and never has a newMessage frame; its handler ends with
\* one error frame to the sender, and none of its slices changes messages,
\* chats or another socket's inbox.
C24_IllFormedSendRejected == []C24_IllFormedState /\ [][C24_IllFormedStep]_vars

\* An ill-formed send got past the chat lookup, was rejected by
\* message.save, and its sender holds the error frame.
C24_Witness ==
  \E i \in 1..Len(sends) :
    /\ IllFormed(sends[i].data)
    /\ sends[i].at = "failed" /\ sends[i].message # 0
    /\ HasErrorFrame(sends[i].conn)

C25_MalformedStep ==
  /\ sock' = sock
  /\ activeUsers' = activeUsers
  /\ \A c \in Conns : rooms'[c] \ {Undefined} = rooms[c] \ {Undefined}
  /\ Cardinality({c \in Conns : inbox'[c] # inbox[c]}) <= 1

\* C25: the handling of a joinChat, leaveChat, sendMessage, typing or
\* markAsRead frame without a payload leaves every socket as it is
\* (connected, listeners attached), activeUsers unchanged and every
\* socket's chat rooms unchanged, and touches at most the sender's inbox.
C25_MalformedFrameSurvived == [][C25_MalformedStep]_vars

C26_CreationStep ==
  Len(messages') = Len(messages) + 1 =>
    LET m == messages'[Len(messages')] IN
      /\ Len(m.readBy) = 1
      /\ m.readBy[1].user = m.sender
      /\ \E i \in 1..Len(sends) :
           sends[i].message = m.id /\ sends[i].user = m.sender

\* C26: the step that stores a new Message, for a sendMessage frame or for
\* POST /api/chats/:chatId/messages, stores it with a readBy of exactly one
\* entry, whose user is the sender (the user of the socket or the caller of
\* the route).
C26_ReadByStartsWithSender == [][C26_CreationStep]_vars

\* One message was stored for a socket's sendMessage and one for a REST
\* request.
C26_Witness ==
  /\ \E i \in 1..Len(sends) : sends[i].conn # 0 /\ PersistIndex(sends[i].message) # 0
  /\ \E i \in 1..Len(sends) : sends[i].conn = 0 /\ PersistIndex(sends[i].message) # 0

\* Sequence old is a prefix of sequence new.
IsPrefix(old, new) ==
  Len(old) <= Len(new) /\ SubSeq(new, 1, Len(old)) = old

C27_MessageStep ==
  /\ Len(messages') >= Len(messages)
  /\ \A k \in 1..Len(messages) :
       /\ messages'[k].id = messages[k].id
       /\ messages'[k].content = messages[k].content
       /\ messages'[k].sender = messages[k].sender
       /\ messages'[k].chat = messages[k].chat
       /\ IsPrefix(messages[k].readBy, messages'[k].readBy)
  /\ messages' # messages =>
       \E i \in 1..Len(reads) :
         /\ reads[i].at = "update" /\ reads'[i].at = "done"
         /\ \A k \in 1..Len(messages) :
              messages[k].id # reads[i].data.messageId => messages'[k] = messages[k]

\* C27: no step of a connect, disconnect, joinChat, leaveChat, typing or
\* markAsRead handler removes a message or changes a stored message's id,
\* content, sender or chat; readBy only gets entries appended, and only by
\* the markAsRead slice that ends an update, on the message it addresses.
C27_MessagesImmutable == [][C27_MessageStep]_vars

\* The stored message has been marked read while a socket has closed and a
\* typing frame has been relayed.
C27_Witness ==
  /\ Len(messages[1].readBy) >= 2
  /\ Len(typings) >= 1
  /\ \E c \in Conns : sock[c].state = "closed" /\ dpc[c].at = "done"

\* C28: every stored chat that is no group chat has exactly two
\* participants, whatever the body of the POST /api/chats request that
\* created it, and only group chats have an admin.
C28_DirectChatHasTwo ==
  \A ch \in DOMAIN chats :
    /\ ~chats[ch].isGroupChat => Cardinality(chats[ch].participants) = 2
    /\ chats[ch].admin # None => chats[ch].isGroupChat

\* The non-group chats stored for the pair of users p.
DirectChatsOf(p) ==
  {ch \in DOMAIN chats : ~chats[ch].isGroupChat /\ chats[ch].participants = p}

\* C29 (state): no pair of users has two non-group chats.
C29_OnePerPair ==
  \A ch \in DOMAIN chats :
    Cardinality(chats[ch].participants) = 2
      => Cardinality(DirectChatsOf(chats[ch].participants)) <= 1

\* C29 (step): a request whose lookup runs when its pair has a chat is
\* answered with that chat, unless the lookup fails, and stores nothing.
C29_LookupStep ==
  \A i \in 1..Len(creates) :
    ( /\ creates[i].at = "findExisting"
      /\ creates'[i].at # "findExisting"
      /\ DirectChatsOf(creates[i].all) # {} )
    => /\ chats' = chats
       /\ creates'[i].at = "done"
       /\ \/ creates'[i].status = 500
          \/ /\ creates'[i].status = 200
             /\ creates'[i].chat \in DirectChatsOf(creates[i].all)

\* C29: at most one non-group chat exists for any unordered pair of users in
\* every reachable state, also when two create requests for one pair overlap
\* between the lookup and the save; a request for a pair that has a chat
\* returns that chat and creates none.
C29_OneDirectChatPerPair == []C29_OnePerPair /\ [][C29_LookupStep]_vars

\* C30 (step): a newMessage broadcast leaves no socket it reaches with as
\* many frames waiting as the relay broadcasts messages in all.
C30_BroadcastStep ==
  \A c \in Conns :
    ( /\ Len(inbox'[c]) = Len(inbox[c]) + 1
      /\ inbox'[c][Len(inbox'[c])].ev = "newMessage" )
    => Len(inbox'[c]) - seen'[c] < MaxSends

\* C30: the frames buffered for one connection stay within a fixed bound,
\* fewer than the messages the relay broadcasts in all: a broadcast that
\* would take a connection's queue past the bound closes that connection
\* instead of queueing, and the other subscribers still get the frame.
C30_OutboundBounded == [][C30_BroadcastStep]_vars

\* C31 (step): a socket gains an error frame only in a step of a sendMessage
\* invocation of that same socket that failed in this step.
C31_ErrorStep ==
  \A c \in Conns :
    ( /\ Len(inbox'[c]) > Len(inbox[c])
      /\ inbox'[c][Len(inbox'[c])].ev = "error" )
    => \E i \in 1..Len(sends) :
         /\ sends[i].conn = c
         /\ sends'[i].errors = sends[i].errors + 1

\* C31: an error frame is delivered only to the connection whose inbound
\* frame caused it, never to a room or to another connection.
C31_ErrorOnlyToOrigin == [][C31_ErrorStep]_vars

\* An invocation of socket 1 failed and its error frame arrived, while the
\* other connected socket has none.
C31_Witness ==
  /\ \E i \in 1..Len(sends) : sends[i].conn = 1 /\ sends[i].errors > 0
  /\ HasErrorFrame(1)
  /\ Connected(2) /\ ~HasErrorFrame(2)

\* C32: a connected socket is in the room of an existing chat only if its
\* user is a participant of that chat, whatever joinChat and leaveChat
\* frames it sent, and every newMessage frame it received is of a chat its
\* user participates in.
C32_RoomsOfOwnChatsOnly ==
  \A c \in Conns :
    Connected(c) =>
      /\ \A ch \in rooms[c] \cap DOMAIN chats :
           sock[c].userId \in chats[ch].participants
      /\ \A k \in 1..Len(inbox[c]) :
           inbox[c][k].ev = "newMessage"
             => sock[c].userId \in chats[inbox[c][k].chat].participants

\* C33 (state): no client's onlineUsers array has two entries for one user.
C33_OneEntryPerUser ==
  \A c \in Conns : \A e, f \in onlineUsers[c] : e.user = f.user => e = f

\* C33 (step): once client c has handled a userOffline frame for a user,
\* isUserOnline of that user is false.
C33_OfflineStep ==
  \A c \in Conns :
    ( /\ seen'[c] = seen[c] + 1
      /\ inbox[c][seen'[c]].ev = "userOffline" )
    => ~isUserOnline(onlineUsers'[c], inbox[c][seen'[c]].userId)

\* C33: in the client's presence view a user is not online once a
\* userOffline event for the user has been handled, whether the entry came
\* from the onlineUsers snapshot or from a userOnline event, and the array
\* never holds two entries for one user.
C33_OfflineMeansNotOnline == []C33_OneEntryPerUser /\ [][C33_OfflineStep]_vars

\* C34 (step): a getOnlineUsers frame that reaches the server on an accepted
\* connection is handled by its listener.
C34_ArrivalStep ==
  \A c \in Conns :
    (asked[c] = "sent" /\ asked'[c] # "sent") => asked'[c] = "answered"

\* C34: no frame of an authenticated client that reaches the server after
\* the connection was accepted is dropped, also when it arrives while the
\* 'connection' handler still awaits the isOnline update or the chat lookup.
C34_NoFrameDropped == [][C34_ArrivalStep]_vars

\* C35: sendMessage is all-or-nothing: a send that ended with the 'Failed to
\* send message' error frame has left no Message in the collection and is no
\* chat's lastMessage, so every Message the socket path stores is one whose
\* send goes on to its newMessage broadcast.
C35_AllOrNothing ==
  \A i \in 1..Len(sends) :
    (sends[i].at = "failed" /\ sends[i].message # 0) =>
      /\ PersistIndex(sends[i].message) = 0
      /\ \A ch \in DOMAIN chats : chats[ch].lastMessage # sends[i].message

\* The flag of the last typing frame the ChatWindow emitted (FALSE if none).
LastTypingEmitted ==
  LET at == {k \in 1..Len(emits) : emits[k].ev = "typing"}
  IN at # {} /\ emits[Max(at)].isTyping

\* C36: every typing=true the ChatWindow emits is eventually followed by a
\* typing=false it emits, on sending the message or a second after the last
\* keystroke, also when the user types one character and stops.
C36_TypingEventuallyCleared == LastTypingEmitted ~> ~LastTypingEmitted

\* C37 (state): the ChatWindow's list shows no message twice.
C37_NoneTwice ==
  \A j, k \in 1..Len(windowMessages) :
    windowMessages[j] = windowMessages[k] => j = k

\* C37 (step): applying the history response drops no message the list
\* showed, that is, none a newMessage event had delivered to the window.
C37_AppliedStep ==
  (load.at = "response" /\ load'.at = "done") =>
    \A j \in 1..Len(windowMessages) :
      \E k \in 1..Len(windowMessages') : windowMessages'[k] = windowMessages[j]

\* C37: the ChatWindow's list holds every message of its chat's page once:
\* for every interleaving of the history response with newMessage events no
\* message is shown twice and none delivered by an event is lost when the
\* response is applied.
C37_EachMessageOnce == []C37_NoneTwice /\ [][C37_AppliedStep]_vars

\* C38 (state): the client's chat list holds each chat at most once.
C38_EachChatOnce ==
  \A j, k \in 1..Len(chatList) : chatList[j].id = chatList[k].id => j = k

\* C38 (step): after a newMessage event the list is sorted by lastActivity,
\* newest first.
C38_NewMessageStep ==
  (seen'[WindowConn] = seen[WindowConn] + 1
     /\ inbox[WindowConn][seen'[WindowConn]].ev = "newMessage")
  => \A j, k \in 1..Len(chatList') :
       j < k => chatList'[j].lastActivity >= chatList'[k].lastActivity

\* C38: the client's chat list holds each chat at most once and is sorted by
\* lastActivity, newest first, after every newMessage event; a create
\* request answered with the chat that already exists adds no second entry.
C38_ChatListOnceAndSorted == []C38_EachChatOnce /\ [][C38_NewMessageStep]_vars

\* The state AUTH_ERROR and LOGOUT leave.
SignedOut == [user |-> None, token |-> None, isAuthenticated |-> FALSE, loading |-> FALSE]

\* C39 (state): the token of the reducer state is the token localStorage
\* holds, and an authenticated state has a user.
C39_TokenStored ==
  /\ authState.token = localStorage
  /\ authState.isAuthenticated => authState.user # None

\* C39 (step): the dispatch that ends a login, register or loadUser attempt
\* leaves loading false, and AUTH_ERROR and LOGOUT leave the signed-out
\* state with no stored token.
C39_AttemptStep ==
  \A i \in 1..Len(attempts) :
    (attempts[i].at = "await" /\ attempts'[i].at = "done") =>
      /\ authState'.loading = FALSE
      /\ attempts'[i].outcome \in {"AUTH_ERROR", "LOGOUT"}
           => authState' = SignedOut /\ localStorage' = None

\* C39: in every state of the auth reducer the state's token is the stored
\* token and isAuthenticated implies a user; AUTH_ERROR and LOGOUT end in
\* the signed-out state with the stored token removed; every login,
\* register or loadUser attempt ends with loading false.
C39_AuthStateConsistent == []C39_TokenStored /\ [][C39_AttemptStep]_vars

\* A login succeeded, the page was loaded again with the stored token, and
\* a later attempt ended in AUTH_ERROR, leaving the browser signed out.
C39_Witness ==
  \E i, j, k \in 1..Len(attempts) :
    /\ i < j /\ j < k
    /\ attempts[i].outcome = "LOGIN_SUCCESS"
    /\ attempts[j].outcome = "loadUser"
    /\ attempts[k].outcome = "AUTH_ERROR"
    /\ authState = SignedOut /\ localStorage = None

=============================================================================
